---- MODULE Spec2Model ----
(***************************************************************************)
(* Token lifecycle and access control of the Crypto Trading Signals API:  *)
(* register / login / refresh / logout / logout-all against the user      *)
(* documents (MongoDB through Mongoose) and the token blacklist (Redis),   *)
(* the authenticate and authorize middlewares and the signal routes.       *)
(*                                                                         *)
(* Time is in seconds, as in the iat/exp claims of the tokens.  The clock  *)
(* advances in jumps of 1 s, one access-token lifetime or one refresh-     *)
(* token lifetime, so that both "same second" and "expired" happen.        *)
(*                                                                         *)
(* A request is a small process: it arrives (middleware chain and the      *)
(* first store read), then performs one step per awaited store write.      *)
(* Two requests can be in flight at once and interleave at these steps.    *)
(*                                                                         *)
(* user.save() is Mongoose's: it sends only the modified paths.  An array  *)
(* that was assigned or shifted is written whole with $set, guarded by the *)
(* document version __v (a stale copy gets a VersionError); an array that  *)
(* was only pushed to is written with $push, which appends to the stored   *)
(* array and increments __v without testing it.                            *)
(***************************************************************************)
EXTENDS Integers, Sequences, FiniteSets, TLC

VARIABLES users, blacklist, redisClient, now, issued, used, revoked, cleared, reqs, started, env, fn,
          signals, signalCache, handlers, handled, boot, browser

vars == <<users, blacklist, redisClient, now, issued, used, revoked, cleared, reqs, started, env, fn,
          signals, signalCache, handlers, handled, boot, browser>>

(***************************************************************************)
(* Bounds of the model.                                                    *)
(***************************************************************************)
MaxTicks == 1
MaxRequests == 2
MaxSeedSessions == 4

Req == {"r1", "r2"}

(***************************************************************************)
(* Program constants.                                                      *)
(***************************************************************************)
AccessExpirySeconds == 900
RefreshExpirySeconds == 604800
DefaultBlacklistTTL == 900
MaxRefreshTokens == 5
\* config/db.js: connectDB's maxRetries and the delay of its setTimeout
maxRetries == 5
RetryDelaySeconds == 5

ClockSteps == {1, AccessExpirySeconds, RefreshExpirySeconds}

\* number of clock jumps that led to time t (the decomposition is unique
\* while fewer than 900 one-second jumps and 672 lifetimes are taken)
TickCount(t) ==
    (t \div RefreshExpirySeconds)
    + ((t % RefreshExpirySeconds) \div AccessExpirySeconds)
    + (t % AccessExpirySeconds)

(***************************************************************************)
(* Identities.  Ids 1 and 2 are the documents the seed script and          *)
(* register create; 0 stands for "no identity".                            *)
(***************************************************************************)
UserIds == {1, 2}
NoUser == 0
AdminId == 1
AdminEmail == "admin@cryptosignals.com"
AnnEmail == "ann@x.com"
Emails == {AdminEmail, AnnEmail}
NoRole == "none"

\* userSchema: the fields of a user document the token lifecycle touches
UserDoc(email, role, active, tokens, v) ==
    [exists |-> TRUE, email |-> email, role |-> role, isActive |-> active,
     refreshTokens |-> tokens, v |-> v, lastLogin |-> -1]

AbsentDoc ==
    [exists |-> FALSE, email |-> "", role |-> NoRole, isActive |-> FALSE,
     refreshTokens |-> <<>>, v |-> 0, lastLogin |-> -1]

\* spellings a request body can carry for the two addresses
UpperAdminEmail == "ADMIN@CRYPTOSIGNALS.COM"
PaddedAnnEmail == " Ann@X.com "
RawEmails == Emails \cup {UpperAdminEmail, PaddedAnnEmail}

\* String.prototype.toLowerCase and String.prototype.trim on the spellings
\* above and on what they turn those into
toLowerCase(s) ==
    CASE s = UpperAdminEmail -> AdminEmail
      [] s = PaddedAnnEmail -> " ann@x.com "
      [] s = "Ann@X.com" -> AnnEmail
      [] OTHER -> s

trim(s) ==
    CASE s = PaddedAnnEmail -> "Ann@X.com"
      [] s = " ann@x.com " -> AnnEmail
      [] OTHER -> s

\* an email path that stores and queries the string as given
emailSetter_asGiven(s) == s

\* userSchema.email { lowercase: true, trim: true }: the setters Mongoose
\* applies to a value assigned to the path and to a value queried on it
emailSetter(s) == trim(toLowerCase(s))

\* the unique index on email: the document holding exactly that value
EmailIndex(us, email) ==
    IF \E u \in UserIds : us[u].exists /\ us[u].email = email
    THEN CHOOSE u \in UserIds : us[u].exists /\ us[u].email = email
    ELSE NoUser

\* User.findOne({ email }): the id of the document with that email, or NoUser
FindByEmail(us, email) == EmailIndex(us, emailSetter(email))

\* the _id of a document about to be inserted: one no document has
NewId(us) ==
    IF \E u \in UserIds : ~us[u].exists
    THEN CHOOSE u \in UserIds : ~us[u].exists
    ELSE NoUser

(***************************************************************************)
(* Tokens.  A JWT is determined by its payload and the signing secret:     *)
(* jwt.sign with HS256 is a function of (payload, iat, exp, secret), so    *)
(* two tokens minted for the same identity in the same second are the      *)
(* same string.                                                            *)
(***************************************************************************)
Token(type, uid, email, role, iat, exp, key) ==
    [type |-> type, userId |-> uid, email |-> email, role |-> role,
     iat |-> iat, exp |-> exp, key |-> key]

\* no token in that place of the request
Absent == Token("absent", NoUser, "", NoRole, 0, 0, "")
\* a string that is not a JWT
Malformed == Token("malformed", NoUser, "", NoRole, 0, 0, "")

\* a mint that writes the schema's default role into every access token
generateAccessToken_defaultRole(e, uid, u, t) ==
    Token("access", uid, u.email, "user", t, t + AccessExpirySeconds, e.JWT_SECRET)

generateAccessToken(e, uid, u, t) ==
    Token("access", uid, u.email, u.role, t, t + AccessExpirySeconds, e.JWT_SECRET)

generateRefreshToken(e, uid, u, t) ==
    Token("refresh", uid, u.email, NoRole, t, t + RefreshExpirySeconds, e.JWT_REFRESH_SECRET)

generateTokenPair(e, uid, u, t) ==
    [accessToken |-> generateAccessToken(e, uid, u, t),
     refreshToken |-> generateRefreshToken(e, uid, u, t)]

(***************************************************************************)
(* Errors.  statusCode 0 is "no statusCode property".                      *)
(***************************************************************************)
Err(name, message, statusCode, isOperational) ==
    [name |-> name, message |-> message, statusCode |-> statusCode,
     isOperational |-> isOperational, code |-> 0]

NoErr == Err("", "", 0, FALSE)
PlainError(message) == Err("Error", message, 0, FALSE)
\* utils/AppError: operational errors carrying their HTTP status
AuthenticationError(message) == Err("AuthenticationError", message, 401, TRUE)
AuthorizationError(message) == Err("AuthorizationError", message, 403, TRUE)
ConflictError(message) == Err("ConflictError", message, 409, TRUE)
\* thrown by save() when the version-guarded update matches no document
VersionError == Err("VersionError", "No matching document found", 0, FALSE)
\* thrown by the unique index on email
DuplicateKeyError == [Err("MongoServerError", "E11000 duplicate key", 0, FALSE) EXCEPT !.code = 11000]

(***************************************************************************)
(* Responses.                                                              *)
(***************************************************************************)
Response(status, message, code) == [status |-> status, message |-> message, code |-> code]
NoResponse == Response(0, "", "")

\* errorResponse(res, statusCode, message, error): the error detail, which
\* carries the code, is in the body only when NODE_ENV is 'development'
errorResponse(status, message, code) ==
    Response(status, message, IF env.NODE_ENV = "development" THEN code ELSE "")
\* successResponse(res, statusCode, message, data)
successResponse(status, message) == Response(status, message, "")

OrElse(a, b) == IF a # 0 THEN a ELSE b

\* the global error handler, reached through asyncHandler's catch(next)
errorHandler(err) ==
    IF err.name = "ValidationError" THEN errorResponse(400, "Validation failed", "")
    ELSE IF err.code = 11000 THEN errorResponse(409, "Email already exists", "")
    ELSE IF err.name = "CastError" THEN errorResponse(400, "Invalid id", "")
    ELSE IF err.name = "JsonWebTokenError" THEN errorResponse(401, "Invalid token", "INVALID_TOKEN")
    ELSE IF err.name = "TokenExpiredError" THEN errorResponse(401, "Token has expired", "TOKEN_EXPIRED")
    ELSE IF err.isOperational THEN errorResponse(OrElse(err.statusCode, 500), err.message, "")
    ELSE errorResponse(OrElse(err.statusCode, 500),
                       IF env.NODE_ENV = "production" THEN "Internal server error" ELSE err.message,
                       "")

(***************************************************************************)
(* config/redis.js: the cache helpers over the module-level client.  The   *)
(* blacklist is the set of live "blacklist:<token>" keys, each with the    *)
(* instant at which Redis drops it.                                        *)
(***************************************************************************)
Entry(tok, expireAt) == [token |-> tok, expireAt |-> expireAt]

\* the module-level client: connected ("open"), never created or dropped
\* ("null"), created but not connected ("closed": isOpen is false), or
\* connected with commands that reject ("failing")
ClientStates == {"open", "null", "closed", "failing"}

\* a lookup that reports every key as present when it cannot read
cacheGet_failClosed(client, bl, t, tok) ==
    IF client # "open" THEN TRUE
    ELSE \E e \in bl : e.token = tok /\ t < e.expireAt

\* cache.get(`blacklist:${token}`): the stored value, or null (FALSE) when
\* the client is missing or closed (the guard), when GET rejects (the
\* catch), or when the key is not there
cacheGet(client, bl, t, tok) ==
    IF client \in {"null", "closed"} THEN FALSE
    ELSE IF client = "failing" THEN FALSE
    ELSE \E e \in bl : e.token = tok /\ t < e.expireAt

\* cache.set(key, true, ttl): the keys after SETEX; Redis refuses a ttl
\* that is not positive and the helper swallows the error
cacheSet(client, bl, t, tok, ttl) ==
    IF client \in {"null", "closed"} THEN bl
    ELSE IF client = "failing" \/ ttl <= 0 THEN bl
    ELSE {e \in bl : e.token # tok} \cup {Entry(tok, t + ttl)}

(***************************************************************************)
(* services/authService.js                                                 *)
(***************************************************************************)
\* a lookup that never finds the key
isTokenBlacklisted_neverListed(client, bl, t, tok) == FALSE

isTokenBlacklisted(client, bl, t, tok) == cacheGet(client, bl, t, tok)

Verified(payload) == [ok |-> TRUE, err |-> NoErr, payload |-> payload]
Thrown(err) == [ok |-> FALSE, err |-> err, payload |-> Absent]

\* jwt.verify(token, secret, { issuer, audience })
jwtVerify(tok, secret, t) ==
    IF tok.type \notin {"access", "refresh"} THEN Thrown(Err("JsonWebTokenError", "jwt malformed", 0, FALSE))
    ELSE IF tok.key # secret THEN Thrown(Err("JsonWebTokenError", "invalid signature", 0, FALSE))
    ELSE IF t >= tok.exp THEN Thrown(Err("TokenExpiredError", "jwt expired", 0, FALSE))
    ELSE Verified(tok)

\* verifyToken without the comparison of decoded.type with the expected type
verifyToken_noTypeCheck(e, client, bl, t, tok, type) ==
    IF isTokenBlacklisted(client, bl, t, tok) THEN Thrown(PlainError("Token has been revoked"))
    ELSE LET secret == IF type = "access" THEN e.JWT_SECRET ELSE e.JWT_REFRESH_SECRET
             decoded == jwtVerify(tok, secret, t)
         IN  IF ~decoded.ok
             THEN IF decoded.err.name = "TokenExpiredError" THEN Thrown(PlainError("Token has expired"))
                  ELSE Thrown(PlainError("Invalid token"))
             ELSE decoded

verifyToken(e, client, bl, t, tok, type) ==
    IF isTokenBlacklisted(client, bl, t, tok) THEN Thrown(PlainError("Token has been revoked"))
    ELSE LET secret == IF type = "access" THEN e.JWT_SECRET ELSE e.JWT_REFRESH_SECRET
             decoded == jwtVerify(tok, secret, t)
         IN  IF ~decoded.ok
             THEN IF decoded.err.name = "TokenExpiredError" THEN Thrown(PlainError("Token has expired"))
                  ELSE Thrown(PlainError("Invalid token"))
             ELSE IF decoded.payload.type # type
                  THEN Thrown(PlainError("Invalid token type. Expected " \o type \o ", got " \o decoded.payload.type))
                  ELSE decoded

\* getTokenExpiry(token): seconds until expiry, from the undecoded claims
getTokenExpiry(tok, t) ==
    IF tok.type \notin {"access", "refresh"} THEN DefaultBlacklistTTL
    ELSE IF tok.exp - t > 0 THEN tok.exp - t ELSE 0

\* blacklistToken(token, expiresIn): the blacklist afterwards
blacklistToken(client, bl, t, tok, expiresIn) == cacheSet(client, bl, t, tok, expiresIn)

\* what cache.set resolves to: false from the guard or the catch, true
\* after SETEX
cacheSetResult(client, ttl) ==
    IF client \in {"null", "closed"} THEN FALSE
    ELSE IF client = "failing" \/ ttl <= 0 THEN FALSE
    ELSE TRUE

\* what blacklistToken resolves to: cache.set is awaited for its effect
\* only, its result is dropped, and since cache.set never rejects the
\* catch that returns false is never entered
blacklistTokenResult(client, expiresIn) ==
    LET written == cacheSetResult(client, expiresIn)
    IN  TRUE

\* an Authorization header as it arrives: its scheme and what follows it
RawHeader(scheme, credentials) == [scheme |-> scheme, credentials |-> credentials]
NoHeader == RawHeader("", Absent)
\* a cookie or body field sent with the empty string as its value
Empty == Token("empty", NoUser, "", NoRole, 0, 0, "")

\* req.headers.authorization && authorization.startsWith('Bearer ') and
\* then authorization.substring(7)
bearerToken(authorization) ==
    IF authorization # NoHeader /\ authorization.scheme = "Bearer" THEN authorization.credentials
    ELSE Absent

\* req.cookies && req.cookies.accessToken as a condition: undefined and ''
\* both count as not there
truthy(value) == IF value \in {Absent, Empty} THEN Absent ELSE value

\* an extraction that looks at the cookie before the header
extractToken_cookieFirst(hdr, ck) ==
    IF ck # Absent THEN ck
    ELSE IF hdr # Absent THEN hdr
    ELSE Absent

\* extractToken(req): Bearer header first, then the accessToken cookie
extractToken(hdr, ck) ==
    IF hdr # Absent THEN hdr
    ELSE IF ck # Absent THEN ck
    ELSE Absent

\* extractRefreshToken(req): refreshToken cookie first, then the body field
extractRefreshToken(rck, rbody) ==
    IF rck # Absent THEN rck
    ELSE IF rbody # Absent THEN rbody
    ELSE Absent

(***************************************************************************)
(* middlewares/authenticate.js, middlewares/authorize.js                   *)
(***************************************************************************)
Gate(next, user, role, res) == [next |-> next, user |-> user, role |-> role, res |-> res]

\* what authenticate's catch block answers for a thrown error
authenticateCatch(err) ==
    IF err.message = "Token has expired"
    THEN errorResponse(401, "Access token has expired. Please refresh your token.", "TOKEN_EXPIRED")
    ELSE IF err.message = "Token has been revoked"
    THEN errorResponse(401, "Token has been revoked. Please login again.", "TOKEN_REVOKED")
    ELSE IF err.message = "Invalid token"
    THEN errorResponse(401, "Invalid access token", "INVALID_TOKEN")
    ELSE errorResponse(OrElse(err.statusCode, 401), err.message, "AUTHENTICATION_FAILED")

\* authenticate without the isActive test
authenticate_noActiveCheck(e, us, client, bl, t, hdr, ck) ==
    LET token == extractToken(hdr, ck)
        decoded == verifyToken(e, client, bl, t, token, "access")
        uid == decoded.payload.userId
    IN  IF token = Absent
        THEN Gate(FALSE, NoUser, NoRole, authenticateCatch(AuthenticationError("Access token is required")))
        ELSE IF ~decoded.ok
        THEN Gate(FALSE, NoUser, NoRole, authenticateCatch(decoded.err))
        ELSE IF uid \notin UserIds \/ ~us[uid].exists
        THEN Gate(FALSE, NoUser, NoRole, authenticateCatch(AuthenticationError("User not found")))
        ELSE Gate(TRUE, uid, us[uid].role, NoResponse)

\* authenticate attaching the schema's default role to every request
authenticate_defaultRole(e, us, client, bl, t, hdr, ck) ==
    LET token == extractToken(hdr, ck)
        decoded == verifyToken(e, client, bl, t, token, "access")
        uid == decoded.payload.userId
    IN  IF token = Absent
        THEN Gate(FALSE, NoUser, NoRole, authenticateCatch(AuthenticationError("Access token is required")))
        ELSE IF ~decoded.ok
        THEN Gate(FALSE, NoUser, NoRole, authenticateCatch(decoded.err))
        ELSE IF uid \notin UserIds \/ ~us[uid].exists
        THEN Gate(FALSE, NoUser, NoRole, authenticateCatch(AuthenticationError("User not found")))
        ELSE IF ~us[uid].isActive
        THEN Gate(FALSE, NoUser, NoRole, authenticateCatch(AuthenticationError("Account is deactivated")))
        ELSE Gate(TRUE, uid, "user", NoResponse)

authenticate(e, us, client, bl, t, hdr, ck) ==
    LET token == extractToken(hdr, ck)
        decoded == verifyToken(e, client, bl, t, token, "access")
        uid == decoded.payload.userId
    IN  IF token = Absent
        THEN Gate(FALSE, NoUser, NoRole, authenticateCatch(AuthenticationError("Access token is required")))
        ELSE IF ~decoded.ok
        THEN Gate(FALSE, NoUser, NoRole, authenticateCatch(decoded.err))
        ELSE IF uid \notin UserIds \/ ~us[uid].exists
        THEN Gate(FALSE, NoUser, NoRole, authenticateCatch(AuthenticationError("User not found")))
        ELSE IF ~us[uid].isActive
        THEN Gate(FALSE, NoUser, NoRole, authenticateCatch(AuthenticationError("Account is deactivated")))
        ELSE Gate(TRUE, uid, us[uid].role, NoResponse)

\* what a middleware without a verdict of its own leaves behind: how often
\* it called next, what it attached to the request, what it sent
Passed(calls, user, role, res) ==
    [next |-> calls > 0, calls |-> calls, user |-> user, role |-> role, res |-> res]

\* an optional middleware that answers failures the way authenticate does
optionalAuthenticate_strict(e, us, client, bl, t, hdr, ck) ==
    LET g == authenticate(e, us, client, bl, t, hdr, ck)
    IN  Passed(IF g.next THEN 1 ELSE 0, g.user, g.role, g.res)

\* optionalAuthenticate(req, res, next): the catch block logs and calls next
optionalAuthenticate(e, us, client, bl, t, hdr, ck) ==
    LET token == extractToken(hdr, ck)
        decoded == verifyToken(e, client, bl, t, token, "access")
        uid == decoded.payload.userId
    IN  IF token = Absent THEN Passed(1, NoUser, NoRole, NoResponse)
        ELSE IF ~decoded.ok THEN Passed(1, NoUser, NoRole, NoResponse)
        ELSE IF uid \in UserIds /\ us[uid].exists /\ us[uid].isActive
        THEN Passed(1, uid, us[uid].role, NoResponse)
        ELSE Passed(1, NoUser, NoRole, NoResponse)

\* authorize without the allowedRoles.includes test
authorize_noRoleCheck(allowedRoles, reqUser, reqUserRole) ==
    IF reqUser = NoUser \/ reqUserRole = NoRole
    THEN Gate(FALSE, reqUser, reqUserRole,
              errorResponse(OrElse(AuthorizationError("").statusCode, 403),
                            "Authentication required for authorization", "AUTHORIZATION_FAILED"))
    ELSE Gate(TRUE, reqUser, reqUserRole, NoResponse)

\* authorize(allowedRoles)(req, res, next), on the context a request carries
authorize(allowedRoles, reqUser, reqUserRole) ==
    IF reqUser = NoUser \/ reqUserRole = NoRole
    THEN Gate(FALSE, reqUser, reqUserRole,
              errorResponse(OrElse(AuthorizationError("").statusCode, 403),
                            "Authentication required for authorization", "AUTHORIZATION_FAILED"))
    ELSE IF reqUserRole \notin allowedRoles
    THEN Gate(FALSE, reqUser, reqUserRole,
              errorResponse(OrElse(AuthorizationError("").statusCode, 403),
                            "Access denied. Required role(s)", "AUTHORIZATION_FAILED"))
    ELSE Gate(TRUE, reqUser, reqUserRole, NoResponse)

isAdmin(reqUser, reqUserRole) == authorize({"admin"}, reqUser, reqUserRole)

\* req.userId.toString(): the hex string of an ObjectId
toStringId(uid) == IF uid = AdminId THEN "64f000000000000000000001" ELSE "64f000000000000000000002"

\* route parameters: their names, the absent value, the values a path
\* segment can have
ParamNames == {"id", "userId"}
NoParam == "undefined"
ParamValues == {toStringId(u) : u \in UserIds} \cup {"me", NoParam}

\* an ownership check that lets administrators through and nobody else
isOwnerOrAdmin_adminOnly(paramName, params, reqUser, reqUserRole) ==
    IF reqUser = NoUser
    THEN Gate(FALSE, reqUser, reqUserRole,
              errorResponse(OrElse(AuthorizationError("").statusCode, 403),
                            "Authentication required", "AUTHORIZATION_FAILED"))
    ELSE IF reqUserRole = "admin"
    THEN Gate(TRUE, reqUser, reqUserRole, NoResponse)
    ELSE Gate(FALSE, reqUser, reqUserRole,
              errorResponse(OrElse(AuthorizationError("").statusCode, 403),
                            "You can only access your own resources", "AUTHORIZATION_FAILED"))

\* isOwnerOrAdmin(paramName)(req, res, next); req.userId is req.user._id
isOwnerOrAdmin(paramName, params, reqUser, reqUserRole) ==
    LET resourceUserId == params[paramName]
        currentUserId == toStringId(reqUser)
    IN  IF reqUser = NoUser
        THEN Gate(FALSE, reqUser, reqUserRole,
                  errorResponse(OrElse(AuthorizationError("").statusCode, 403),
                                "Authentication required", "AUTHORIZATION_FAILED"))
        ELSE IF reqUserRole = "admin" \/ currentUserId = resourceUserId
        THEN Gate(TRUE, reqUser, reqUserRole, NoResponse)
        ELSE Gate(FALSE, reqUser, reqUserRole,
                  errorResponse(OrElse(AuthorizationError("").statusCode, 403),
                                "You can only access your own resources", "AUTHORIZATION_FAILED"))

(***************************************************************************)
(* models/User.js: the instance methods, on a request's copy of a document *)
(* (doc) and the stored documents (us).  Each returns the stored documents *)
(* and the copy after save(), or the error save() throws.                  *)
(***************************************************************************)
Doc(uid, tokens, v) == [uid |-> uid, refreshTokens |-> tokens, v |-> v]
NoDoc == Doc(NoUser, <<>>, 0)

\* findById(id).select('+refreshTokens')
findById(us, uid) ==
    IF uid \in UserIds /\ us[uid].exists
    THEN Doc(uid, us[uid].refreshTokens, us[uid].v)
    ELSE NoDoc

Saved(us, doc) == [ok |-> TRUE, err |-> NoErr, users |-> us, doc |-> doc]
SaveFailed(us, doc, err) == [ok |-> FALSE, err |-> err, users |-> us, doc |-> doc]

\* save() of a copy whose refreshTokens array was replaced: $set of the
\* whole array where __v still is the copy's, then $inc of __v
saveSet(us, doc, tokens) ==
    IF us[doc.uid].v # doc.v THEN SaveFailed(us, [doc EXCEPT !.refreshTokens = tokens], VersionError)
    ELSE Saved([us EXCEPT ![doc.uid].refreshTokens = tokens, ![doc.uid].v = @ + 1],
               Doc(doc.uid, tokens, doc.v + 1))

\* this.refreshTokens = tokens; save(): an assignment of an equal array
\* leaves the path unmodified and save() sends nothing
assignTokens(us, doc, tokens) ==
    IF tokens = doc.refreshTokens THEN Saved(us, doc)
    ELSE saveSet(us, doc, tokens)

\* a save() that writes the copy's whole array over the stored one,
\* whatever version the stored document has
savePush_overwrite(us, doc, tok) ==
    Saved([us EXCEPT ![doc.uid].refreshTokens = Append(doc.refreshTokens, tok), ![doc.uid].v = @ + 1],
          Doc(doc.uid, Append(doc.refreshTokens, tok), doc.v + 1))

\* save() of a copy whose refreshTokens array was only pushed to: $push on
\* the stored array and $inc of __v
savePush(us, doc, tok) ==
    Saved([us EXCEPT ![doc.uid].refreshTokens = Append(@, tok), ![doc.uid].v = @ + 1],
          Doc(doc.uid, Append(doc.refreshTokens, tok), doc.v + 1))

\* an addRefreshToken that makes room by dropping the newest entry
addRefreshToken_evictsNewest(us, doc, tok) ==
    IF Len(doc.refreshTokens) >= MaxRefreshTokens
    THEN saveSet(us, doc, Append(SubSeq(doc.refreshTokens, 1, Len(doc.refreshTokens) - 1), tok))
    ELSE savePush(us, doc, tok)

\* userSchema.methods.addRefreshToken
addRefreshToken(us, doc, tok) ==
    IF Len(doc.refreshTokens) >= MaxRefreshTokens
    THEN saveSet(us, doc, Append(Tail(doc.refreshTokens), tok))
    ELSE savePush(us, doc, tok)

Filter(seq, tok) == SelectSeq(seq, LAMBDA x : x # tok)

\* userSchema.methods.removeRefreshToken
removeRefreshToken(us, doc, tok) == assignTokens(us, doc, Filter(doc.refreshTokens, tok))

\* userSchema.methods.removeAllRefreshTokens
removeAllRefreshTokens(us, doc) == assignTokens(us, doc, <<>>)

Includes(seq, tok) == \E i \in 1..Len(seq) : seq[i] = tok

(***************************************************************************)
(* Requests.                                                               *)
(***************************************************************************)
SignalOps == {"getSignals", "getSignalById", "createSignal", "updateSignal", "deleteSignal", "getAnalytics"}
\* routes/signalRoutes.js: the routes that carry isAdmin
AdminSignalOps == {"createSignal", "updateSignal", "deleteSignal", "getAnalytics"}
\* the routes mounted behind authenticate
GatedOps == SignalOps \cup {"logout", "logoutAll"}

NoPair == [accessToken |-> Absent, refreshToken |-> Absent]

\* A request: its inputs (Authorization header, accessToken cookie, refresh
\* token, email, whether the password matches), what the middlewares
\* attached (user, role), the handler's copy of the user document, the
\* minted pair, the response, whether the route handler ran to its end.
\* replay: the presented refresh token had already been used successfully
\* when the request arrived.  raced: another refresh presenting the same
\* token succeeded while this request was in flight.
Request(op, pc, hdr, ck, rt, email, pw) ==
    [op |-> op, pc |-> pc, hdr |-> hdr, ck |-> ck, rt |-> rt, email |-> email, pw |-> pw,
     user |-> NoUser, role |-> NoRole, doc |-> NoDoc, pair |-> NoPair,
     res |-> NoResponse, ran |-> FALSE, replay |-> FALSE, raced |-> FALSE,
     bodyRole |-> NoRole]

Idle == Request("none", "idle", Absent, Absent, Absent, "", FALSE)

\* a response is delivered before anything else happens: the record of a
\* finished request is observed in one state and then cleared
Quiet == \A r \in Req : reqs[r].pc # "done"

\* a new request takes the first idle slot (the slots are interchangeable)
Free(r) == /\ Quiet
           /\ reqs[r].pc = "idle"
           /\ r = "r1" \/ reqs["r1"].pc # "idle"

\* A request that only passes the gate on arrival (authenticate reads the
\* blacklist and the identity, never a refreshTokens list) sees between two
\* steps of a request in flight what it would see before or after them, so
\* it is let in only when no other request is in flight.
Solo(r) == Free(r) /\ \A o \in Req : reqs[o].pc = "idle"

\* what a client can send as a token: one it was given, or junk, or nothing
Presentable == issued \cup {Malformed, Absent}
PresentableRefresh == {t \in Presentable : t.type # "access"}
\* where a request carries its access token: in the Authorization header,
\* in the accessToken cookie, or an access token in the header and another
\* token in the cookie
OneCarrier == {hc \in Presentable \X Presentable : hc[1] = Absent \/ hc[2] = Absent}
TwoCarriers == {hc \in issued \X issued : hc[1].type = "access" /\ hc[2] # hc[1]}

\* the request ends with this response; its copy of the document is dropped
Finish(q, res) == [q EXCEPT !.pc = "done", !.res = res, !.doc = NoDoc]
\* the handler ran to its return statement
Return(q, res) == [Finish(q, res) EXCEPT !.ran = TRUE]
\* the handler threw: asyncHandler passes the error to errorHandler
Throw(q, err) == [Finish(q, errorHandler(err)) EXCEPT !.pair = NoPair]

FnIdle == [name |-> "none"]

Env(nodeEnv, secret, refreshSecret) ==
    [NODE_ENV |-> nodeEnv, JWT_SECRET |-> secret, JWT_REFRESH_SECRET |-> refreshSecret]

\* the sessions an identity holds when the server starts: n refresh tokens,
\* one minted per second, the newest in second 0, oldest first
SeedTokens(e, uid, u, n) == [i \in 1..n |-> generateRefreshToken(e, uid, u, i - n)]

SeedAdmin(active) == UserDoc(AdminEmail, "admin", active, <<>>, 0)
SeedAnn == UserDoc(AnnEmail, "user", TRUE, <<>>, 0)
AnnId == CHOOSE u \in UserIds : u # AdminId

\* the tokens of an identity's sessions that its clients present: those of
\* the newest session (the devices of the older sessions stay silent)
SeedIssued(e, uid, u, n) ==
    IF n = 0 THEN {}
    ELSE {SeedTokens(e, uid, u, n)[n], generateAccessToken(e, uid, u, 0)}

(***************************************************************************)
(* The trading signals: the TradingSignal collection, the Redis keys that  *)
(* cache reads of it, and the signal handlers in flight.  A document is    *)
(* identified by the number of saves that made it (rev).                   *)
(***************************************************************************)
MaxSignalRequests == 3
SignalIds == {1, 2}
Pages == {1, 2}
Handler == {"h1", "h2"}

SignalDoc(rev) == [exists |-> TRUE, rev |-> rev]
NoSignal == [exists |-> FALSE, rev |-> 0]

\* getCacheKey.signal(id), getCacheKey.signalsList(page, limit, filters) and
\* the keys redisClient.keys('signals:*') returns
signalKey(id) == <<"signal", id>>
signalsListKey(page) == <<"signals", page>>
CacheKeys == {signalKey(id) : id \in SignalIds} \cup {signalsListKey(page) : page \in Pages}
\* the key blacklistToken and isTokenBlacklisted use: blacklist:<token>
blacklistKey(tok) == <<"blacklist", tok>>
\* a pattern that matches every key
MatchesAllSignals_everyKey(key) == TRUE
\* the glob 'signals:*'
MatchesAllSignals(key) == key[1] = "signals"

\* what a key holds: nothing, a signal document, or the documents of a list
Miss == [kind |-> "miss"]
CachedSignal(doc) == [kind |-> "signal", doc |-> doc]
CachedList(docs) == [kind |-> "list", docs |-> docs]

\* a signal handler: its route, where it stands, its parameters, what it
\* read from the collection, what it answered and whether from the cache
HandlerCall(op, pc, id, page) ==
    [op |-> op, pc |-> pc, id |-> id, page |-> page, read |-> Miss, res |-> Miss, status |-> 0,
     cached |-> FALSE]
NoHandler == HandlerCall("none", "idle", 0, 0)

\* one signal in the collection, nothing cached, no handler running
InitSignals ==
    /\ signals = [id \in SignalIds |-> IF id = 1 THEN SignalDoc(0) ELSE NoSignal]
    /\ signalCache = [key \in CacheKeys |-> Miss]
    /\ handlers = [h \in Handler |-> NoHandler]
    /\ handled = 0

SignalStore == <<signals, signalCache, handlers, handled>>

(***************************************************************************)
(* The process around the request handlers: server.js starting connectDB   *)
(* and connectRedis, and the browser client of utils/api.js.               *)
(***************************************************************************)
\* the server process: where connectDB is (db), its retries counter, the
\* number of mongoose.connect calls made, the seconds left on its retry
\* timer, where connectRedis is, whether app.listen was called, and the
\* code the process exited with (NotExited while it runs)
NotExited == -1
Boot(db, retries, attempts, timer, redis, listening, exitCode) ==
    [db |-> db, retries |-> retries, attempts |-> attempts, timer |-> timer,
     redis |-> redis, listening |-> listening, exitCode |-> exitCode]
\* a process that is up: the database connected at the first attempt,
\* connectRedis returned
Booted == Boot("connected", 0, 1, 0, "returned", TRUE, NotExited)
\* the process before server.js has run
NotStarted == Boot("idle", 0, 0, 0, "idle", FALSE, NotExited)

\* the browser: localStorage's accessToken and refreshToken (Absent when
\* the key is not set) and the api calls in flight
Storage(accessToken, refreshToken) == [accessToken |-> accessToken, refreshToken |-> refreshToken]
\* localStorage.clear()
ClearedStorage == Storage(Absent, Absent)

Calls == {"c1", "c2"}
NoStatus == 0

\* an api call: where it is, its config's _retry flag and Authorization
\* header, the refresh token its interceptor posted, the status and the
\* tokens of the response it is about to receive, and how many refresh
\* calls and retries it has made
ClientCall(pc, retry, auth) ==
    [pc |-> pc, retry |-> retry, auth |-> auth, rt |-> Absent,
     status |-> NoStatus, tokens |-> NoPair, refreshes |-> 0, retries |-> 0,
     refreshStatus |-> NoStatus, retryStatus |-> NoStatus]
NoCall == ClientCall("idle", FALSE, Absent)

NoClient == [storage |-> ClearedStorage, calls |-> [c \in Calls |-> NoCall]]

InitPeriphery ==
    /\ boot = Booted
    /\ browser = NoClient

Periphery == <<boot, browser>>

Init ==
    /\ InitSignals
    /\ InitPeriphery
    /\ env \in {Env(mode, "access-secret", "refresh-secret") : mode \in {"development", "production"}}
    /\ \E n \in {0, MaxSeedSessions}, active \in BOOLEAN, m \in {0, 1} :
          /\ active \/ n > 0
          /\ m = 1 <=> n > 0
          /\ users = [u \in UserIds |->
                        IF u = AdminId
                        THEN [SeedAdmin(active) EXCEPT
                                 !.refreshTokens = SeedTokens(env, AdminId, SeedAdmin(active), n), !.v = n]
                        ELSE IF m = 1
                        THEN [SeedAnn EXCEPT !.refreshTokens = SeedTokens(env, AnnId, SeedAnn, 1), !.v = 1]
                        ELSE AbsentDoc]
          /\ issued = SeedIssued(env, AdminId, SeedAdmin(active), n) \cup SeedIssued(env, AnnId, SeedAnn, m)
    /\ blacklist = {}
    /\ redisClient \in {"open", "null"}
    /\ now = 0
    /\ used = {}
    /\ revoked = {}
    /\ cleared = {}
    /\ reqs = [r \in Req |-> Idle]
    /\ started = 0
    /\ fn = FnIdle

\* used, revoked and cleared are the history of the run, read by no
\* handler: used holds the refresh tokens a refresh has succeeded with,
\* revoked the tokens logout or logout-all has stored in the blacklist,
\* cleared the refresh tokens that had been issued to an identity when a
\* logout-all of it completed.
Others == <<redisClient, now, env, fn, SignalStore, Periphery>>

(***************************************************************************)
(* POST /auth/register                                                     *)
(***************************************************************************)
\* body read, User.findOne({ email })
RegisterArrive(r) ==
    /\ Free(r) /\ started < MaxRequests
    /\ \E email \in RawEmails, bodyRole \in {NoRole, "admin"} :
          LET q == [Request("register", "reg_create", Absent, Absent, Absent, email, TRUE)
                       EXCEPT !.bodyRole = bodyRole]
          IN  reqs' = [reqs EXCEPT ![r] =
                         IF FindByEmail(users, email) # NoUser
                         THEN Throw(q, ConflictError("Email already registered"))
                         ELSE q]
    /\ started' = started + 1
    /\ UNCHANGED <<users, blacklist, issued, used, revoked, cleared, Others>>

\* a register that creates the identity with the role its body asks for
registerRole_fromBody(bodyRole) == IF bodyRole # NoRole THEN bodyRole ELSE "user"

\* role: 'user' in User.create: req.body.role is never read
registerRole(bodyRole) == "user"

\* User.create({ ..., role: 'user' }), generateTokenPair(user)
RegisterCreate(r) ==
    /\ Quiet /\ reqs[r].pc = "reg_create"
    /\ LET q == reqs[r]
           u == UserDoc(emailSetter(q.email), registerRole(q.bodyRole), TRUE, <<>>, 0)
           id == NewId(users)
       IN  IF EmailIndex(users, u.email) # NoUser
           THEN /\ reqs' = [reqs EXCEPT ![r] = Throw(q, DuplicateKeyError)]
                /\ UNCHANGED users
           ELSE /\ id # NoUser
                /\ users' = [users EXCEPT ![id] = u]
                /\ reqs' = [reqs EXCEPT ![r] =
                              [q EXCEPT !.pc = "reg_add", !.doc = Doc(id, <<>>, 0),
                                        !.pair = generateTokenPair(env, id, u, now)]]
    /\ UNCHANGED <<blacklist, issued, used, revoked, cleared, started, Others>>

\* user.addRefreshToken(refreshToken), cookies, 201
RegisterAdd(r) ==
    /\ Quiet /\ reqs[r].pc = "reg_add"
    /\ LET q == reqs[r]
           s == addRefreshToken(users, q.doc, q.pair.refreshToken)
       IN  /\ users' = s.users
           /\ IF s.ok
              THEN /\ reqs' = [reqs EXCEPT ![r] = Return(q, successResponse(201, "User registered successfully"))]
                   /\ issued' = issued \cup {q.pair.accessToken, q.pair.refreshToken}
              ELSE /\ reqs' = [reqs EXCEPT ![r] = Throw(q, s.err)]
                   /\ UNCHANGED issued
    /\ UNCHANGED <<blacklist, used, revoked, cleared, started, Others>>

(***************************************************************************)
(* POST /auth/login                                                        *)
(***************************************************************************)
\* a login that stamps lastLogin as soon as it has found the identity
LoginArrive_stampsFirst(r) ==
    /\ Free(r) /\ started < MaxRequests
    /\ \E email \in Emails, pw \in BOOLEAN :
          LET q == Request("login", "login_add", Absent, Absent, Absent, email, pw)
              uid == FindByEmail(users, email)
          IN  /\ reqs' = [reqs EXCEPT ![r] =
                            IF uid = NoUser
                            THEN Throw(q, AuthenticationError("Invalid email or password"))
                            ELSE IF ~users[uid].isActive
                            THEN Throw(q, AuthenticationError("Account is deactivated. Please contact support."))
                            ELSE IF ~pw
                            THEN Throw(q, AuthenticationError("Invalid email or password"))
                            ELSE [q EXCEPT !.doc = findById(users, uid)]]
              /\ users' = IF uid = NoUser THEN users ELSE [users EXCEPT ![uid].lastLogin = now]
    /\ started' = started + 1
    /\ UNCHANGED <<blacklist, issued, used, revoked, cleared, Others>>

\* User.findByCredentials(email), isActive, comparePassword
LoginArrive(r) ==
    /\ Free(r) /\ started < MaxRequests
    /\ \E email \in Emails, pw \in BOOLEAN :
          LET q == Request("login", "login_add", Absent, Absent, Absent, email, pw)
              uid == FindByEmail(users, email)
          IN  reqs' = [reqs EXCEPT ![r] =
                         IF uid = NoUser
                         THEN Throw(q, AuthenticationError("Invalid email or password"))
                         ELSE IF ~users[uid].isActive
                         THEN Throw(q, AuthenticationError("Account is deactivated. Please contact support."))
                         ELSE IF ~pw
                         THEN Throw(q, AuthenticationError("Invalid email or password"))
                         ELSE [q EXCEPT !.doc = findById(users, uid)]]
    /\ started' = started + 1
    /\ UNCHANGED <<users, blacklist, issued, used, revoked, cleared, Others>>

\* generateTokenPair(user), user.addRefreshToken(refreshToken),
\* user.lastLogin = new Date(), user.save(), cookies, 200
LoginAdd(r) ==
    /\ Quiet /\ reqs[r].pc = "login_add"
    /\ LET q == reqs[r]
           pair == generateTokenPair(env, q.doc.uid, users[q.doc.uid], now)
           s == addRefreshToken(users, q.doc, pair.refreshToken)
       IN  IF s.ok
           THEN /\ users' = [s.users EXCEPT ![q.doc.uid].lastLogin = now]
                /\ reqs' = [reqs EXCEPT ![r] =
                              Return([q EXCEPT !.pair = pair], successResponse(200, "Login successful"))]
                /\ issued' = issued \cup {pair.accessToken, pair.refreshToken}
           ELSE /\ users' = s.users
                /\ reqs' = [reqs EXCEPT ![r] = Throw(q, s.err)]
                /\ UNCHANGED issued
    /\ UNCHANGED <<blacklist, used, revoked, cleared, started, Others>>

(***************************************************************************)
(* POST /auth/refresh                                                      *)
(***************************************************************************)
\* refreshAccessToken up to its first write: the request after
\* extractRefreshToken, verifyToken(., 'refresh'), User.findById,
\* refreshTokens.includes and generateTokenPair(user)
\* a refresh handler that mints the pair before its checks and answers a
\* rejection with the minted pair still attached
refreshCheck_mintsFirst(q, e, us, client, bl, t) ==
    LET decoded == verifyToken(e, client, bl, t, q.rt, "refresh")
        doc == findById(us, decoded.payload.userId)
        minted == IF q.rt # Absent /\ decoded.ok /\ doc # NoDoc
                  THEN [q EXCEPT !.pair = generateTokenPair(e, doc.uid, us[doc.uid], t)]
                  ELSE q
    IN  IF q.rt = Absent
        THEN Throw(q, AuthenticationError("Refresh token is required"))
        ELSE IF ~decoded.ok
        THEN Throw(q, decoded.err)
        ELSE IF doc = NoDoc
        THEN Throw(q, AuthenticationError("User not found"))
        ELSE IF ~Includes(doc.refreshTokens, q.rt)
        THEN Finish(minted, errorHandler(AuthenticationError("Invalid refresh token")))
        ELSE [minted EXCEPT !.doc = doc]

refreshCheck(q, e, us, client, bl, t) ==
    LET decoded == verifyToken(e, client, bl, t, q.rt, "refresh")
        doc == findById(us, decoded.payload.userId)
    IN  IF q.rt = Absent
        THEN Throw(q, AuthenticationError("Refresh token is required"))
        ELSE IF ~decoded.ok
        THEN Throw(q, decoded.err)
        ELSE IF doc = NoDoc
        THEN Throw(q, AuthenticationError("User not found"))
        ELSE IF ~Includes(doc.refreshTokens, q.rt)
        THEN Throw(q, AuthenticationError("Invalid refresh token"))
        ELSE [q EXCEPT !.doc = doc, !.pair = generateTokenPair(e, doc.uid, us[doc.uid], t)]

RefreshRequest(rt) == Request("refresh", "refresh_remove", Absent, Absent, rt, "", FALSE)

RefreshArrive(r) ==
    /\ Free(r) /\ started < MaxRequests
    /\ \E rck \in PresentableRefresh, rbody \in PresentableRefresh :
          /\ rck = Absent \/ rbody = Absent
          /\ LET rt == extractRefreshToken(rck, rbody)
                 q == [RefreshRequest(rt) EXCEPT !.replay = rt \in used]
             IN  reqs' = [reqs EXCEPT ![r] = refreshCheck(q, env, users, redisClient, blacklist, now)]
    /\ started' = started + 1
    /\ UNCHANGED <<users, blacklist, issued, used, revoked, cleared, Others>>

\* user.removeRefreshToken(refreshToken)
RefreshRemove(r) ==
    /\ Quiet /\ reqs[r].pc = "refresh_remove"
    /\ LET q == reqs[r]
           s == removeRefreshToken(users, q.doc, q.rt)
       IN  /\ users' = s.users
           /\ reqs' = [reqs EXCEPT ![r] =
                         IF s.ok THEN [q EXCEPT !.pc = "refresh_add", !.doc = s.doc]
                         ELSE Throw(q, s.err)]
    /\ UNCHANGED <<blacklist, issued, used, revoked, cleared, started, Others>>

\* user.addRefreshToken(newRefreshToken), cookies, 200
RefreshAdd(r) ==
    /\ Quiet /\ reqs[r].pc = "refresh_add"
    /\ LET q == reqs[r]
           s == addRefreshToken(users, q.doc, q.pair.refreshToken)
       IN  /\ users' = s.users
           /\ IF s.ok
              THEN /\ reqs' = [o \in Req |->
                                 IF o = r THEN Return(q, successResponse(200, "Token refreshed successfully"))
                                 ELSE IF reqs[o].op = "refresh" /\ reqs[o].rt = q.rt
                                 THEN [reqs[o] EXCEPT !.raced = TRUE]
                                 ELSE reqs[o]]
                   /\ issued' = issued \cup {q.pair.accessToken, q.pair.refreshToken}
                   /\ used' = used \cup {q.rt}
              ELSE /\ reqs' = [reqs EXCEPT ![r] = Throw(q, s.err)]
                   /\ UNCHANGED <<issued, used>>
    /\ UNCHANGED <<blacklist, revoked, cleared, started, Others>>

(***************************************************************************)
(* POST /auth/logout                                                       *)
(***************************************************************************)
\* the tokens recorded so far, after a write that turned the blacklist
\* from bl into bl2
Recorded(rev, bl, bl2) == rev \cup {e.token : e \in bl2 \ bl}

\* a handler that blacklisted a token the request did not carry
TokenToBlacklist_unrelated(hdr, ck) == CHOOSE t \in issued : t \notin {hdr, ck}

\* the access token logout and logoutAll blacklist:
\* req.cookies.accessToken || req.headers.authorization?.substring(7)
TokenToBlacklist(hdr, ck) == IF ck # Absent THEN ck ELSE hdr

\* the route's authenticate middleware
LogoutArrive(r) ==
    /\ Solo(r) /\ started < MaxRequests
    /\ \E hc \in OneCarrier \cup TwoCarriers, rt \in PresentableRefresh :
          LET hdr == hc[1]
              ck == hc[2]
              q == Request("logout", "logout_blacklist", hdr, ck, rt, "", FALSE)
              g == authenticate(env, users, redisClient, blacklist, now, hdr, ck)
          IN  reqs' = [reqs EXCEPT ![r] =
                         IF g.next THEN [q EXCEPT !.user = g.user, !.role = g.role]
                         ELSE Finish(q, g.res)]
    /\ started' = started + 1
    /\ UNCHANGED <<users, blacklist, issued, used, revoked, cleared, Others>>

\* extractRefreshToken, blacklistToken(accessToken, getTokenExpiry(accessToken)),
\* User.findById(req.user._id).select('+refreshTokens')
LogoutBlacklist(r) ==
    /\ Quiet /\ reqs[r].pc = "logout_blacklist"
    /\ LET q == reqs[r]
           accessToken == TokenToBlacklist(q.hdr, q.ck)
       IN  /\ blacklist' = IF accessToken # Absent
                           THEN blacklistToken(redisClient, blacklist, now, accessToken,
                                               getTokenExpiry(accessToken, now))
                           ELSE blacklist
           /\ revoked' = Recorded(revoked, blacklist, blacklist')
           /\ reqs' = [reqs EXCEPT ![r] =
                         IF q.rt # Absent /\ q.user # NoUser
                         THEN [q EXCEPT !.pc = "logout_remove", !.doc = findById(users, q.user)]
                         ELSE Return(q, successResponse(200, "Logout successful"))]
    /\ UNCHANGED <<users, issued, used, cleared, started, Others>>

\* user.removeRefreshToken(refreshToken), clearCookie, 200
LogoutRemove(r) ==
    /\ Quiet /\ reqs[r].pc = "logout_remove"
    /\ LET q == reqs[r]
           s == IF q.doc = NoDoc THEN Saved(users, q.doc) ELSE removeRefreshToken(users, q.doc, q.rt)
       IN  /\ users' = s.users
           /\ reqs' = [reqs EXCEPT ![r] =
                         IF s.ok THEN Return(q, successResponse(200, "Logout successful"))
                         ELSE Throw(q, s.err)]
    /\ UNCHANGED <<blacklist, issued, used, revoked, cleared, started, Others>>

(***************************************************************************)
(* POST /auth/logout-all                                                   *)
(***************************************************************************)
\* the route's authenticate middleware, User.findById(req.user._id)
LogoutAllArrive(r) ==
    /\ Free(r) /\ started < MaxRequests
    /\ \E hc \in OneCarrier \cup TwoCarriers :
          LET hdr == hc[1]
              ck == hc[2]
              q == Request("logoutAll", "la_remove", hdr, ck, Absent, "", FALSE)
              g == authenticate(env, users, redisClient, blacklist, now, hdr, ck)
              doc == findById(users, g.user)
          IN  reqs' = [reqs EXCEPT ![r] =
                         IF ~g.next THEN Finish(q, g.res)
                         ELSE IF doc = NoDoc
                         THEN Throw([q EXCEPT !.user = g.user, !.role = g.role],
                                    AuthenticationError("User not found"))
                         ELSE [q EXCEPT !.user = g.user, !.role = g.role, !.doc = doc]]
    /\ started' = started + 1
    /\ UNCHANGED <<users, blacklist, issued, used, revoked, cleared, Others>>

\* user.removeAllRefreshTokens()
LogoutAllRemove(r) ==
    /\ Quiet /\ reqs[r].pc = "la_remove"
    /\ LET q == reqs[r]
           s == removeAllRefreshTokens(users, q.doc)
       IN  /\ users' = s.users
           /\ reqs' = [reqs EXCEPT ![r] =
                         IF s.ok THEN [q EXCEPT !.pc = "la_blacklist", !.doc = s.doc]
                         ELSE Throw(q, s.err)]
    /\ UNCHANGED <<blacklist, issued, used, revoked, cleared, started, Others>>

\* blacklistToken(accessToken, getTokenExpiry(accessToken)), clearCookie, 200
LogoutAllBlacklist(r) ==
    /\ Quiet /\ reqs[r].pc = "la_blacklist"
    /\ LET q == reqs[r]
           accessToken == TokenToBlacklist(q.hdr, q.ck)
       IN  /\ blacklist' = IF accessToken # Absent
                           THEN blacklistToken(redisClient, blacklist, now, accessToken,
                                               getTokenExpiry(accessToken, now))
                           ELSE blacklist
           /\ revoked' = Recorded(revoked, blacklist, blacklist')
           /\ cleared' = cleared \cup {t \in issued : t.type = "refresh" /\ t.userId = q.user}
           /\ reqs' = [reqs EXCEPT ![r] =
                         Return(q, successResponse(200, "Logged out from all devices successfully"))]
    /\ UNCHANGED <<users, issued, used, started, Others>>

(***************************************************************************)
(* /signals: router.use(authenticate), then isAdmin on the admin routes    *)
(***************************************************************************)
\* the signal routes with isAdmin left off the admin routes
signalRoute_noAdminGate(q, e, us, client, bl, t) ==
    LET g == authenticate(e, us, client, bl, t, q.hdr, q.ck)
        attached == [q EXCEPT !.user = g.user, !.role = g.role]
    IN  IF ~g.next THEN Finish(q, g.res)
        ELSE Return(attached, successResponse(200, "Success"))

\* the middleware chain of a signal route and, when it lets the request
\* through, the route handler
signalRoute(q, e, us, client, bl, t) ==
    LET g == authenticate(e, us, client, bl, t, q.hdr, q.ck)
        a == IF q.op \in AdminSignalOps THEN isAdmin(g.user, g.role) ELSE g
        attached == [q EXCEPT !.user = g.user, !.role = g.role]
    IN  IF ~g.next THEN Finish(q, g.res)
        ELSE IF ~a.next THEN Finish(attached, a.res)
        ELSE Return(attached, successResponse(200, "Success"))

SignalRequest(r) ==
    /\ Solo(r) /\ started < MaxRequests
    /\ \E op \in SignalOps, hc \in OneCarrier :
          reqs' = [reqs EXCEPT ![r] =
                     signalRoute(Request(op, "handler", hc[1], hc[2], Absent, "", FALSE),
                                 env, users, redisClient, blacklist, now)]
    /\ started' = started + 1
    /\ UNCHANGED <<users, blacklist, issued, used, revoked, cleared, Others>>

(***************************************************************************)
(* Environment: the clock, and the Redis client's 'error' event            *)
(***************************************************************************)
Tick ==
    /\ Quiet
    /\ TickCount(now) < MaxTicks
    /\ \E d \in ClockSteps :
          /\ now' = now + d
          /\ blacklist' = {e \in blacklist : now + d < e.expireAt}
    /\ UNCHANGED <<users, redisClient, issued, used, revoked, cleared, reqs, started, env, fn, SignalStore, Periphery>>

\* an error handler after which the client comes back
RedisError_reconnects ==
    /\ Quiet
    /\ redisClient \in {"open", "null"}
    /\ redisClient' = IF redisClient = "open" THEN "null" ELSE "open"
    /\ UNCHANGED <<users, blacklist, now, issued, used, revoked, cleared, reqs, started, env, fn, SignalStore, Periphery>>

\* redisClient.on('error', ...): the module-level client becomes null
RedisError ==
    /\ Quiet
    /\ redisClient = "open"
    /\ redisClient' = "null"
    /\ UNCHANGED <<users, blacklist, now, issued, used, revoked, cleared, reqs, started, env, fn, SignalStore, Periphery>>

\* the response has been sent; the slot is free again
Complete(r) ==
    /\ reqs[r].pc = "done"
    /\ reqs' = [reqs EXCEPT ![r] = Idle]
    /\ UNCHANGED <<users, blacklist, issued, used, revoked, cleared, started, Others>>

Next ==
    \/ \E r \in Req : RegisterArrive(r)
    \/ \E r \in Req : RegisterCreate(r)
    \/ \E r \in Req : RegisterAdd(r)
    \/ \E r \in Req : LoginArrive(r)
    \/ \E r \in Req : LoginAdd(r)
    \/ \E r \in Req : RefreshArrive(r)
    \/ \E r \in Req : RefreshRemove(r)
    \/ \E r \in Req : RefreshAdd(r)
    \/ \E r \in Req : LogoutArrive(r)
    \/ \E r \in Req : LogoutBlacklist(r)
    \/ \E r \in Req : LogoutRemove(r)
    \/ \E r \in Req : LogoutAllArrive(r)
    \/ \E r \in Req : LogoutAllRemove(r)
    \/ \E r \in Req : LogoutAllBlacklist(r)
    \/ \E r \in Req : SignalRequest(r)
    \/ \E r \in Req : Complete(r)
    \/ Tick
    \/ RedisError

Spec == Init /\ [][Next]_vars

(***************************************************************************)
(* The pure functions on their own: verifyToken and authorize applied to   *)
(* inputs drawn from bounded sets.  fn holds the last call, its arguments  *)
(* and its result; the stores are not touched.                             *)
(***************************************************************************)
\* both classes signed with different secrets, or with the same secret
FnEnvs == {Env("development", "access-secret", rs) : rs \in {"access-secret", "refresh-secret"}}
FnTimes == {0, AccessExpirySeconds, RefreshExpirySeconds}
FnRoles == {"user", "admin", "moderator"}

\* the tokens minted under e in second 0, a token signed by someone else,
\* and a string that is no JWT
FnTokens(e) ==
    {generateAccessToken(e, AdminId, SeedAdmin(TRUE), 0), generateRefreshToken(e, AdminId, SeedAdmin(TRUE), 0),
     generateAccessToken(e, AnnId, SeedAnn, 0), generateRefreshToken(e, AnnId, SeedAnn, 0),
     Token("access", AnnId, AnnEmail, "admin", 0, AccessExpirySeconds, "forged"),
     Malformed}

InitFn ==
    /\ InitSignals
    /\ InitPeriphery
    /\ env = Env("development", "access-secret", "refresh-secret")
    /\ users = [u \in UserIds |-> IF u = AdminId THEN SeedAdmin(TRUE) ELSE SeedAnn]
    /\ blacklist = {}
    /\ redisClient = "open"
    /\ now = 0
    /\ issued = {}
    /\ used = {}
    /\ revoked = {}
    /\ cleared = {}
    /\ reqs = [r \in Req |-> Idle]
    /\ started = 0
    /\ fn = FnIdle

Stores == <<users, blacklist, redisClient, now, issued, used, revoked, cleared, reqs, started, env, SignalStore, Periphery>>

\* verifyToken(token, type) at time t, after a logout in second 0 did or
\* did not blacklist the token, with the cache client open or missing
CallVerifyToken ==
    /\ \E e \in FnEnvs, type \in {"access", "refresh"}, t \in FnTimes,
          client \in {"open", "null"}, listed \in BOOLEAN :
          \E tok \in FnTokens(e) :
             LET bl == blacklistToken(IF listed THEN "open" ELSE "null", {}, 0, tok, getTokenExpiry(tok, 0))
             IN  fn' = [name |-> "verifyToken", env |-> e, token |-> tok, type |-> type, time |-> t,
                        client |-> client, listed |-> listed,
                        result |-> verifyToken(e, client, bl, t, tok, type)]
    /\ UNCHANGED Stores

\* authorize(allowedRoles) on a request context
CallAuthorize ==
    /\ \E allowedRoles \in SUBSET FnRoles, reqUser \in UserIds \cup {NoUser},
          reqUserRole \in {"user", "admin", NoRole} :
          fn' = [name |-> "authorize", allowedRoles |-> allowedRoles, user |-> reqUser,
                 role |-> reqUserRole, result |-> authorize(allowedRoles, reqUser, reqUserRole)]
    /\ UNCHANGED Stores

\* isTokenBlacklisted(token) under each state of the cache client, after a
\* logout in second 0 did or did not blacklist the token
CallIsTokenBlacklisted ==
    /\ \E e \in FnEnvs, t \in FnTimes, client \in ClientStates, listed \in BOOLEAN :
          \E tok \in FnTokens(e) :
             LET bl == blacklistToken(IF listed THEN "open" ELSE "null", {}, 0, tok, getTokenExpiry(tok, 0))
             IN  fn' = [name |-> "isTokenBlacklisted", env |-> e, token |-> tok, time |-> t,
                        client |-> client, listed |-> listed,
                        result |-> isTokenBlacklisted(client, bl, t, tok)]
    /\ UNCHANGED Stores

\* authenticate(req, res, next) on a request carrying tok in its
\* Authorization header, the admin account active or deactivated
CallAuthenticate ==
    /\ \E e \in FnEnvs, t \in FnTimes, client \in ClientStates, listed \in BOOLEAN, active \in BOOLEAN :
          \E tok \in FnTokens(e) \cup {Absent} :
             LET bl == blacklistToken(IF listed THEN "open" ELSE "null", {}, 0, tok, getTokenExpiry(tok, 0))
                 us == [users EXCEPT ![AdminId] = SeedAdmin(active)]
             IN  fn' = [name |-> "authenticate", env |-> e, token |-> tok, time |-> t,
                        client |-> client, listed |-> listed, users |-> us,
                        result |-> authenticate(e, us, client, bl, t, tok, Absent)]
    /\ UNCHANGED Stores

\* blacklistToken(token, getTokenExpiry(token)) on an empty registry
CallBlacklistToken ==
    /\ \E e \in FnEnvs, t \in FnTimes, client \in ClientStates :
          \E tok \in FnTokens(e) :
             LET expiresIn == getTokenExpiry(tok, t)
             IN  fn' = [name |-> "blacklistToken", env |-> e, token |-> tok, time |-> t,
                        client |-> client, expiresIn |-> expiresIn,
                        after |-> blacklistToken(client, {}, t, tok, expiresIn),
                        result |-> blacklistTokenResult(client, expiresIn)]
    /\ UNCHANGED Stores

\* user.addRefreshToken(token) on a document just loaded, holding n
\* sessions; the token minted in second 0 repeats that of the newest session
CallAddRefreshToken ==
    /\ \E uid \in UserIds, n \in 0..MaxRefreshTokens, t \in {0, 1} :
          LET before == SeedTokens(env, uid, users[uid], n)
              us == [users EXCEPT ![uid].refreshTokens = before, ![uid].v = n]
              tok == generateRefreshToken(env, uid, users[uid], t)
          IN  fn' = [name |-> "addRefreshToken", user |-> uid, before |-> before, token |-> tok,
                     result |-> addRefreshToken(us, findById(us, uid), tok)]
    /\ UNCHANGED Stores

\* generateAccessToken(user) or generateRefreshToken(user) in second 0,
\* then verifyToken(token, class) at time t
CallMintThenVerify ==
    /\ \E e \in FnEnvs, uid \in UserIds, class \in {"access", "refresh"}, t \in FnTimes,
          client \in {"open", "null"}, listed \in BOOLEAN :
          LET u == users[uid]
              tok == IF class = "access" THEN generateAccessToken(e, uid, u, 0)
                     ELSE generateRefreshToken(e, uid, u, 0)
              bl == blacklistToken(IF listed THEN "open" ELSE "null", {}, 0, tok, getTokenExpiry(tok, 0))
          IN  fn' = [name |-> "mintThenVerify", env |-> e, user |-> uid, doc |-> u, type |-> class,
                     token |-> tok, time |-> t, client |-> client, listed |-> listed,
                     result |-> verifyToken(e, client, bl, t, tok, class)]
    /\ UNCHANGED Stores

NextFn ==
    \/ CallMintThenVerify
    \/ CallAddRefreshToken
    \/ CallBlacklistToken
    \/ CallVerifyToken
    \/ CallAuthorize
    \/ CallIsTokenBlacklisted
    \/ CallAuthenticate

SpecFn == InitFn /\ [][NextFn]_vars

(***************************************************************************)
(* The middlewares and the extraction helpers on their own, applied to     *)
(* request shapes drawn from bounded sets; fn holds the last call.         *)
(***************************************************************************)
\* optionalAuthenticate(req, res, next) on a request carrying tok in its
\* Authorization header, after a logout in second 0 did or did not
\* blacklist tok, the admin account active or deactivated, Ann's account
\* present or not
CallOptionalAuthenticate ==
    /\ \E e \in FnEnvs, t \in FnTimes, client \in {"open", "null"}, listed \in BOOLEAN,
          active \in BOOLEAN, present \in BOOLEAN :
          \E tok \in FnTokens(e) \cup {Absent} :
             LET bl == blacklistToken(IF listed THEN "open" ELSE "null", {}, 0, tok, getTokenExpiry(tok, 0))
                 us == [users EXCEPT ![AdminId] = SeedAdmin(active),
                                     ![AnnId] = IF present THEN SeedAnn ELSE AbsentDoc]
             IN  fn' = [name |-> "optionalAuthenticate", env |-> e, token |-> tok, time |-> t,
                        client |-> client, blacklist |-> bl, users |-> us,
                        result |-> optionalAuthenticate(e, us, client, bl, t, tok, Absent)]
    /\ UNCHANGED Stores

\* isOwnerOrAdmin(paramName) on the context authenticate left on a request
\* (or on a request it never saw) and the route's parameters
CallIsOwnerOrAdmin ==
    /\ \E paramName \in ParamNames, params \in [ParamNames -> ParamValues],
          reqUser \in UserIds \cup {NoUser}, role \in {"user", "admin"} :
          LET reqUserRole == IF reqUser = NoUser THEN NoRole ELSE role
          IN  fn' = [name |-> "isOwnerOrAdmin", paramName |-> paramName, params |-> params,
                     user |-> reqUser, role |-> reqUserRole,
                     result |-> isOwnerOrAdmin(paramName, params, reqUser, reqUserRole)]
    /\ UNCHANGED Stores

\* the tokens and header schemes a request is built from
CarriedTokens ==
    {generateAccessToken(env, AdminId, users[AdminId], 0), generateAccessToken(env, AnnId, users[AnnId], 0),
     generateRefreshToken(env, AnnId, users[AnnId], 0), Malformed}
Schemes == {"Bearer", "bearer", "Basic"}

\* extractToken(req) on a request with or without an Authorization header
\* and an accessToken cookie
CallExtractToken ==
    /\ \E authorization \in {RawHeader(sch, tok) : sch \in Schemes, tok \in CarriedTokens} \cup {NoHeader},
          cookie \in CarriedTokens \cup {Absent, Empty} :
          fn' = [name |-> "extractToken", authorization |-> authorization, cookie |-> cookie,
                 result |-> extractToken(bearerToken(authorization), truthy(cookie))]
    /\ UNCHANGED Stores

\* extractRefreshToken(req) on a request with or without a refreshToken
\* cookie and a refreshToken body field
CallExtractRefreshToken ==
    /\ \E cookie \in CarriedTokens \cup {Absent, Empty}, body \in CarriedTokens \cup {Absent, Empty} :
          fn' = [name |-> "extractRefreshToken", cookie |-> cookie, body |-> body,
                 result |-> extractRefreshToken(truthy(cookie), truthy(body))]
    /\ UNCHANGED Stores

NextMw ==
    \/ CallExtractToken
    \/ CallExtractRefreshToken
    \/ CallIsOwnerOrAdmin
    \/ CallOptionalAuthenticate

SpecMw == InitFn /\ [][NextMw]_vars

(***************************************************************************)
(* controllers/signalController.js over the collection and the cache, the  *)
(* requests already past authenticate and isAdmin.  A handler steps at its *)
(* awaits: a reader looks up the cache and the collection, then stores     *)
(* what it read; a writer saves, then invalidates.                         *)
(***************************************************************************)
\* cache.get(key): the parsed value, or null from the guard, the catch or a
\* missing key
cacheGetValue(client, store, key) ==
    IF client \in {"null", "closed"} THEN Miss
    ELSE IF client = "failing" THEN Miss
    ELSE store[key]

\* cache.set(key, value, ttl): the keys after SETEX
cacheSetValue(client, store, key, value) ==
    IF client \in {"null", "closed"} THEN store
    ELSE IF client = "failing" THEN store
    ELSE [store EXCEPT ![key] = value]

\* cache.del(key)
cacheDel(client, store, key) ==
    IF client \in {"null", "closed"} THEN store
    ELSE IF client = "failing" THEN store
    ELSE [store EXCEPT ![key] = Miss]

\* cache.delPattern('signals:*'): KEYS, then DEL of what it returned
cacheDelPattern(client, store) ==
    IF client \in {"null", "closed"} THEN store
    ELSE IF client = "failing" THEN store
    ELSE [key \in CacheKeys |-> IF MatchesAllSignals(key) THEN Miss ELSE store[key]]

\* the blacklist keys left by cache.del(key) and by
\* cache.delPattern('signals:*'): both run on the one Redis database that
\* also holds the blacklist:<token> keys
blacklistAfterDel(client, bl, key) ==
    IF client \in {"null", "closed"} THEN bl
    ELSE IF client = "failing" THEN bl
    ELSE {e \in bl : blacklistKey(e.token) # key}

blacklistAfterDelPattern(client, bl) ==
    IF client \in {"null", "closed"} THEN bl
    ELSE IF client = "failing" THEN bl
    ELSE {e \in bl : ~MatchesAllSignals(blacklistKey(e.token))}

SignalFrame == <<users, redisClient, now, issued, used, revoked, cleared, reqs, started, env, fn, Periphery>>
AuthStores == <<users, blacklist, redisClient, now, issued, used, revoked, cleared, reqs, started, env, fn, Periphery>>

HandlersQuiet == \A h \in Handler : handlers[h].pc # "done"
\* a new request takes the first idle slot
HandlerFree(h) ==
    /\ HandlersQuiet
    /\ handled < MaxSignalRequests
    /\ handlers[h].pc = "idle"
    /\ h = "h1" \/ handlers["h1"].pc # "idle"
Answer(c, status, res) == [c EXCEPT !.pc = "done", !.status = status, !.res = res]

\* getSignalById: cache.get(signal:<id>), and on a miss findById
getSignalByIdRead(h) ==
    /\ HandlerFree(h)
    /\ \E id \in SignalIds :
          LET c == HandlerCall("getSignalById", "set", id, 0)
              cachedSignal == cacheGetValue(redisClient, signalCache, signalKey(id))
          IN  handlers' = [handlers EXCEPT ![h] =
                              IF cachedSignal # Miss THEN [Answer(c, 200, cachedSignal) EXCEPT !.cached = TRUE]
                              ELSE IF ~signals[id].exists THEN Answer(c, 404, Miss)
                              ELSE [c EXCEPT !.read = CachedSignal(signals[id])]]
    /\ handled' = handled + 1
    /\ UNCHANGED <<signals, signalCache, AuthStores>>

\* getSignalById: cache.set(signal:<id>, signal, ttl), 200
getSignalByIdSet(h) ==
    /\ HandlersQuiet
    /\ handlers[h].op = "getSignalById" /\ handlers[h].pc = "set"
    /\ LET c == handlers[h]
       IN  /\ signalCache' = cacheSetValue(redisClient, signalCache, signalKey(c.id), c.read)
           /\ handlers' = [handlers EXCEPT ![h] = Answer(c, 200, c.read)]
    /\ UNCHANGED <<signals, handled, AuthStores>>

\* getSignals: cache.get(signals:page:...), and on a miss countDocuments
\* and find
getSignalsRead(h) ==
    /\ HandlerFree(h)
    /\ \E page \in Pages :
          LET c == HandlerCall("getSignals", "set", 0, page)
              cachedData == cacheGetValue(redisClient, signalCache, signalsListKey(page))
          IN  handlers' = [handlers EXCEPT ![h] =
                              IF cachedData # Miss THEN [Answer(c, 200, cachedData) EXCEPT !.cached = TRUE]
                              ELSE [c EXCEPT !.read = CachedList(signals)]]
    /\ handled' = handled + 1
    /\ UNCHANGED <<signals, signalCache, AuthStores>>

\* getSignals: cache.set(cacheKey, { signals, pagination }, ttl), 200
getSignalsSet(h) ==
    /\ HandlersQuiet
    /\ handlers[h].op = "getSignals" /\ handlers[h].pc = "set"
    /\ LET c == handlers[h]
       IN  /\ signalCache' = cacheSetValue(redisClient, signalCache, signalsListKey(c.page), c.read)
           /\ handlers' = [handlers EXCEPT ![h] = Answer(c, 200, c.read)]
    /\ UNCHANGED <<signals, handled, AuthStores>>

\* createSignal: TradingSignal.create
createSignalSave(h) ==
    /\ HandlerFree(h)
    /\ \E id \in SignalIds :
          /\ ~signals[id].exists
          /\ signals' = [signals EXCEPT ![id] = SignalDoc(signals[id].rev + 1)]
          /\ handlers' = [handlers EXCEPT ![h] = HandlerCall("createSignal", "invalidate", id, 0)]
    /\ handled' = handled + 1
    /\ UNCHANGED <<signalCache, AuthStores>>

\* updateSignal: findById, the assignments, signal.save()
updateSignalSave(h) ==
    /\ HandlerFree(h)
    /\ \E id \in SignalIds :
          LET c == HandlerCall("updateSignal", "invalidate", id, 0)
          IN  IF ~signals[id].exists
              THEN /\ handlers' = [handlers EXCEPT ![h] = Answer(c, 404, Miss)]
                   /\ UNCHANGED signals
              ELSE /\ signals' = [signals EXCEPT ![id] = SignalDoc(signals[id].rev + 1)]
                   /\ handlers' = [handlers EXCEPT ![h] = c]
    /\ handled' = handled + 1
    /\ UNCHANGED <<signalCache, AuthStores>>

\* deleteSignal: findById, signal.deleteOne()
deleteSignalSave(h) ==
    /\ HandlerFree(h)
    /\ \E id \in SignalIds :
          LET c == HandlerCall("deleteSignal", "invalidate", id, 0)
          IN  IF ~signals[id].exists
              THEN /\ handlers' = [handlers EXCEPT ![h] = Answer(c, 404, Miss)]
                   /\ UNCHANGED signals
              ELSE /\ signals' = [signals EXCEPT ![id] = [exists |-> FALSE, rev |-> signals[id].rev]]
                   /\ handlers' = [handlers EXCEPT ![h] = c]
    /\ handled' = handled + 1
    /\ UNCHANGED <<signalCache, AuthStores>>

\* the writers' "Invalidate cache": cache.del(signal:<id>) in updateSignal
\* and deleteSignal, cache.delPattern('signals:*') in all three, then the
\* response
signalInvalidate(h) ==
    /\ HandlersQuiet
    /\ handlers[h].pc = "invalidate"
    /\ LET c == handlers[h]
           afterDel == IF c.op = "createSignal" THEN signalCache
                       ELSE cacheDel(redisClient, signalCache, signalKey(c.id))
           listedAfterDel == IF c.op = "createSignal" THEN blacklist
                             ELSE blacklistAfterDel(redisClient, blacklist, signalKey(c.id))
       IN  /\ signalCache' = cacheDelPattern(redisClient, afterDel)
           /\ blacklist' = blacklistAfterDelPattern(redisClient, listedAfterDel)
           /\ handlers' = [handlers EXCEPT ![h] = Answer(c, IF c.op = "createSignal" THEN 201 ELSE 200, Miss)]
    /\ UNCHANGED <<signals, handled, SignalFrame>>

\* the response has been sent
handlerComplete(h) ==
    /\ handlers[h].pc = "done"
    /\ handlers' = [handlers EXCEPT ![h] = NoHandler]
    /\ UNCHANGED <<signals, signalCache, handled, AuthStores>>

\* a logout between two signal requests: blacklistToken(accessToken,
\* getTokenExpiry(accessToken)) for an access token of second 0
logoutBetweenSignals ==
    /\ HandlersQuiet
    /\ blacklist = {}
    /\ \E tok \in {t \in FnTokens(env) : t.type = "access"} :
          blacklist' = blacklistToken(redisClient, blacklist, now, tok, getTokenExpiry(tok, now))
    /\ UNCHANGED <<signals, signalCache, handlers, handled, SignalFrame>>

NextSignals ==
    \/ logoutBetweenSignals
    \/ \E h \in Handler :
        \/ getSignalByIdRead(h)
        \/ getSignalByIdSet(h)
        \/ getSignalsRead(h)
        \/ getSignalsSet(h)
        \/ createSignalSave(h)
        \/ updateSignalSave(h)
        \/ deleteSignalSave(h)
        \/ signalInvalidate(h)
        \/ handlerComplete(h)

SpecSignals == InitFn /\ [][NextSignals]_vars

(***************************************************************************)
(* The start of the process: server.js calls connectDB() and               *)
(* connectRedis() without awaiting them and then app.listen.  SpecBoot     *)
(* follows the process from there; connectDB's steps are taken whenever    *)
(* they can be (mongoose.connect settles, timers fire).                    *)
(***************************************************************************)
InitBoot ==
    /\ InitSignals
    /\ env = Env("development", "access-secret", "refresh-secret")
    /\ users = [u \in UserIds |-> IF u = AdminId THEN SeedAdmin(TRUE) ELSE SeedAnn]
    /\ blacklist = {}
    /\ redisClient = "null"
    /\ now = 0
    /\ issued = {}
    /\ used = {}
    /\ revoked = {}
    /\ cleared = {}
    /\ reqs = [r \in Req |-> Idle]
    /\ started = 0
    /\ fn = FnIdle
    /\ boot = NotStarted
    /\ browser = NoClient

BootFrame == <<users, blacklist, now, issued, used, revoked, cleared, reqs, started, env, fn,
               SignalStore, browser>>

Alive == boot.exitCode = NotExited

\* a retry rule that allows one attempt more
mayRetry_oneMore(retries) == retries <= maxRetries

\* if (retries < maxRetries)
mayRetry(retries) == retries < maxRetries

\* server.js up to app.listen: connectDB() runs to its first
\* mongoose.connect, connectRedis() to its return (REDIS_URL not
\* configured) or to its await of redisClient.connect()
serverStart ==
    /\ boot = NotStarted
    /\ \E configured \in BOOLEAN :
          /\ redisClient' = IF configured THEN "closed" ELSE redisClient
          /\ boot' = Boot("connecting", 0, 1, 0,
                          IF configured THEN "connecting" ELSE "returned", TRUE, NotExited)
    /\ UNCHANGED BootFrame

\* await mongoose.connect(...) resolves: the listeners are registered and
\* connect returns
mongooseConnectResolves ==
    /\ Alive /\ boot.db = "connecting"
    /\ boot' = [boot EXCEPT !.db = "connected"]
    /\ UNCHANGED <<redisClient, BootFrame>>

\* await mongoose.connect(...) rejects: the catch block
mongooseConnectRejects ==
    /\ Alive /\ boot.db = "connecting"
    /\ LET retries == boot.retries + 1
       IN  boot' = IF mayRetry(retries)
                   THEN [boot EXCEPT !.retries = retries, !.db = "waiting", !.timer = RetryDelaySeconds]
                   ELSE [boot EXCEPT !.retries = retries, !.db = "failed", !.exitCode = 1]
    /\ UNCHANGED <<redisClient, BootFrame>>

\* a second of setTimeout(connect, 5000) passes
retryTimerTick ==
    /\ Alive /\ boot.db = "waiting" /\ boot.timer > 0
    /\ boot' = [boot EXCEPT !.timer = @ - 1]
    /\ UNCHANGED <<redisClient, BootFrame>>

\* the timer fires: connect() calls mongoose.connect again
retryTimerFires ==
    /\ Alive /\ boot.db = "waiting" /\ boot.timer = 0
    /\ boot' = [boot EXCEPT !.db = "connecting", !.attempts = @ + 1]
    /\ UNCHANGED <<redisClient, BootFrame>>

\* await redisClient.connect() resolves; connectRedis returns the client
redisConnectResolves ==
    /\ Alive /\ boot.redis = "connecting" /\ redisClient = "closed"
    /\ redisClient' = "open"
    /\ boot' = [boot EXCEPT !.redis = "returned"]
    /\ UNCHANGED BootFrame

\* await redisClient.connect() rejects; the catch returns null and leaves
\* the module-level variable as it is
redisConnectRejects ==
    /\ Alive /\ boot.redis = "connecting"
    /\ boot' = [boot EXCEPT !.redis = "returned"]
    /\ UNCHANGED <<redisClient, BootFrame>>

\* redisClient.on('error', ...) while the process runs
redisErrorEvent ==
    /\ Alive /\ redisClient \in {"closed", "open"}
    /\ redisClient' = "null"
    /\ UNCHANGED <<boot, BootFrame>>

connectDBStep ==
    \/ serverStart
    \/ mongooseConnectResolves
    \/ mongooseConnectRejects
    \/ retryTimerTick
    \/ retryTimerFires

NextBoot ==
    \/ connectDBStep
    \/ redisConnectResolves
    \/ redisConnectRejects
    \/ redisErrorEvent

SpecBoot == InitBoot /\ [][NextBoot]_vars /\ WF_vars(connectDBStep)

(***************************************************************************)
(* frontend/src/utils/api.js: the browser's api calls against the server.  *)
(* The server answers a call with authenticate's verdict and serves a      *)
(* refresh call in one step; a call can also fail without a response.      *)
(***************************************************************************)
\* what the browser holds: the pair of Ann's login in second 0, with the
\* refresh token missing or replaced by one the server does not know
InitStorages ==
    {Storage(generateAccessToken(env, AnnId, SeedAnn, 0), rt) :
        rt \in {generateRefreshToken(env, AnnId, SeedAnn, 0), Absent, Malformed}}

InitClient ==
    /\ InitSignals
    /\ env = Env("development", "access-secret", "refresh-secret")
    /\ users = [u \in UserIds |->
                   IF u = AdminId THEN SeedAdmin(TRUE)
                   ELSE [SeedAnn EXCEPT !.refreshTokens = SeedTokens(env, AnnId, SeedAnn, 1), !.v = 1]]
    /\ blacklist = {}
    /\ redisClient = "open"
    /\ now \in {0, AccessExpirySeconds}
    /\ issued = SeedIssued(env, AnnId, SeedAnn, 1)
    /\ used = {}
    /\ revoked = {}
    /\ cleared = {}
    /\ reqs = [r \in Req |-> Idle]
    /\ started = 0
    /\ fn = FnIdle
    /\ boot = Booted
    /\ \E st \in InitStorages : browser = [NoClient EXCEPT !.storage = st]

ClientFrame == <<blacklist, redisClient, revoked, cleared, reqs, started, env, fn, SignalStore, boot>>

\* an interceptor that refreshes on every 401
shouldRefresh_every401(status, retry) == status = 401

\* if (error.response?.status === 401 && !originalRequest._retry)
shouldRefresh(status, retry) == status = 401 /\ ~retry

\* the status the server answers a call carrying this Authorization header
apiStatus(auth) ==
    LET g == authenticate(env, users, redisClient, blacklist, now, auth, Absent)
    IN  IF g.next THEN 200 ELSE g.res.status

\* the request interceptor: the stored access token, when there is one,
\* becomes the Authorization header
requestInterceptor(storage, auth) ==
    IF storage.accessToken # Absent THEN storage.accessToken ELSE auth

\* api(config): the request interceptor runs and the request leaves
clientSend(c) ==
    /\ browser.calls[c].pc = "idle"
    /\ browser' = [browser EXCEPT !.calls[c] =
                      ClientCall("sent", FALSE, requestInterceptor(browser.storage, Absent))]
    /\ UNCHANGED <<users, now, issued, used, ClientFrame>>

\* the response of the call arrives (delivered, with the server's status)
\* or the call fails without one; the response interceptor runs up to its
\* first await
clientResponse(c) ==
    /\ browser.calls[c].pc \in {"sent", "retrying"}
    /\ \E delivered \in BOOLEAN :
          LET call == browser.calls[c]
              status == IF delivered THEN apiStatus(call.auth) ELSE NoStatus
              seen == IF call.pc = "retrying" THEN [call EXCEPT !.retryStatus = status] ELSE call
              refreshToken == browser.storage.refreshToken
          IN  IF status = 200
              THEN browser' = [browser EXCEPT !.calls[c] = [seen EXCEPT !.pc = "resolved", !.status = 200]]
              ELSE IF ~shouldRefresh(status, call.retry)
              THEN browser' = [browser EXCEPT !.calls[c] = [seen EXCEPT !.pc = "rejected", !.status = status]]
              ELSE IF refreshToken = Absent
              THEN browser' = [browser EXCEPT
                                  !.storage = ClearedStorage,
                                  !.calls[c] = [seen EXCEPT !.pc = "rejected", !.status = status, !.retry = TRUE]]
              ELSE browser' = [browser EXCEPT
                                  !.calls[c] = [seen EXCEPT !.pc = "refreshing", !.status = status, !.retry = TRUE,
                                                            !.rt = refreshToken, !.refreshes = @ + 1]]
    /\ UNCHANGED <<users, now, issued, used, ClientFrame>>

\* the server handles the interceptor's POST /auth/refresh, or the call
\* fails before reaching it
serverRefresh(c) ==
    /\ browser.calls[c].pc = "refreshing"
    /\ \E delivered \in BOOLEAN :
          LET call == browser.calls[c]
              q == refreshCheck(RefreshRequest(call.rt), env, users, redisClient, blacklist, now)
              removed == removeRefreshToken(users, q.doc, call.rt)
              added == addRefreshToken(removed.users, removed.doc, q.pair.refreshToken)
          IN  IF ~delivered
              THEN /\ browser' = [browser EXCEPT !.calls[c] = [call EXCEPT !.pc = "refreshed", !.refreshStatus = NoStatus]]
                   /\ UNCHANGED <<users, issued, used>>
              ELSE IF q.pc = "done"
              THEN /\ browser' = [browser EXCEPT !.calls[c] =
                                     [call EXCEPT !.pc = "refreshed", !.refreshStatus = q.res.status]]
                   /\ UNCHANGED <<users, issued, used>>
              ELSE /\ users' = added.users
                   /\ issued' = issued \cup {q.pair.accessToken, q.pair.refreshToken}
                   /\ used' = used \cup {call.rt}
                   /\ browser' = [browser EXCEPT !.calls[c] =
                                     [call EXCEPT !.pc = "refreshed", !.refreshStatus = 200, !.tokens = q.pair]]
    /\ UNCHANGED <<now, ClientFrame>>

\* the interceptor after its await of the refresh call: the tokens are
\* stored and the original request is sent again, or the catch block
\* clears localStorage and rejects
clientRefreshed(c) ==
    /\ browser.calls[c].pc = "refreshed"
    /\ LET call == browser.calls[c]
           stored == Storage(call.tokens.accessToken,
                             IF call.tokens.refreshToken # Absent THEN call.tokens.refreshToken
                             ELSE browser.storage.refreshToken)
       IN  IF call.refreshStatus = 200
           THEN browser' = [browser EXCEPT
                               !.storage = stored,
                               !.calls[c] = [call EXCEPT !.pc = "retrying", !.retries = @ + 1,
                                                         !.auth = requestInterceptor(stored, call.tokens.accessToken)]]
           ELSE browser' = [browser EXCEPT
                               !.storage = ClearedStorage,
                               !.calls[c] = [call EXCEPT !.pc = "rejected"]]
    /\ UNCHANGED <<users, now, issued, used, ClientFrame>>

\* the lifetime of an access token passes
clientClock ==
    /\ now < 2 * AccessExpirySeconds
    /\ now' = now + AccessExpirySeconds
    /\ UNCHANGED <<users, issued, used, browser, ClientFrame>>

NextClient ==
    \/ \E c \in Calls :
        \/ clientSend(c)
        \/ clientResponse(c)
        \/ serverRefresh(c)
        \/ clientRefreshed(c)
    \/ clientClock

SpecClient == InitClient /\ [][NextClient]_vars

(***************************************************************************)
(* Properties.                                                             *)
(***************************************************************************)
Done(r) == reqs[r].pc = "done"
\* the request of slot r arrives in this step
Arrives(r) == reqs[r].pc = "idle" /\ reqs'[r].pc # "idle"
Unauthenticated(res) == res.status = 401
RevokedMessage == "Token has been revoked. Please login again."

\* what authenticate is specified to require of the presented token, read
\* off the stores: it is there, it is an unexpired access token signed with
\* the access secret, the registry does not report it, and it names an
\* identity that exists and is active
Honoured(tok) ==
    /\ tok # Absent
    /\ tok.type = "access" /\ tok.key = env.JWT_SECRET /\ now < tok.exp
    /\ ~(redisClient = "open" /\ \E e \in blacklist : e.token = tok /\ now < e.expireAt)
    /\ tok.userId \in UserIds
    /\ users[tok.userId].exists /\ users[tok.userId].isActive

\* C1: once a refresh presenting refresh token t has succeeded, every later
\* refresh presenting t, while t has not expired, fails as Unauthenticated (401).
C1_RefreshTokenSingleUse ==
    \A r \in Req :
        (Done(r) /\ reqs[r].op = "refresh" /\ reqs[r].replay /\ now < reqs[r].rt.exp)
            => Unauthenticated(reqs[r].res)

\* C2: in every reachable state every identity's stored refreshTokens list
\* has at most 5 entries.
C2_RefreshListWithinCap ==
    \A u \in UserIds : Len(users[u].refreshTokens) <= MaxRefreshTokens

C4_LogoutAllEndsEverySession ==
    \A r \in Req :
        Done(r) =>
            /\ (reqs[r].op = "logoutAll" /\ reqs[r].res.status = 200)
                  => users[reqs[r].user].refreshTokens = <<>>
            /\ (reqs[r].op = "refresh" /\ reqs[r].rt \in cleared)
                  => Unauthenticated(reqs[r].res)

\* C5: of two refresh requests in flight with the same refresh token, the
\* one that does not obtain the new pair is rejected as a replay:
\* Unauthenticated (401).
C5_ConcurrentRefreshLoserRejected ==
    \A r \in Req :
        (Done(r) /\ reqs[r].op = "refresh" /\ reqs[r].raced)
            => Unauthenticated(reqs[r].res)

\* the error messages of the WrongClass and Invalid outcomes
WrongClassMessage(type, got) == "Invalid token type. Expected " \o type \o ", got " \o got
InvalidMessage == "Invalid token"

\* the call in fn is verifyToken of a token minted by this server (signed
\* with the secret of its own class) in the class that was not asked for
WrongClassCall ==
    /\ fn.name = "verifyToken"
    /\ fn.token.type \in {"access", "refresh"}
    /\ fn.token.key = (IF fn.token.type = "access" THEN fn.env.JWT_SECRET ELSE fn.env.JWT_REFRESH_SECRET)
    /\ fn.token.type # fn.type

\* C6 (as stated): verifyToken never returns a payload for a token of the
\* other class; the call ends in a WrongClass or Invalid error.
C6_WrongClassEndsInvalid ==
    WrongClassCall =>
        /\ ~fn.result.ok
        /\ fn.result.err.message \in {WrongClassMessage(fn.type, fn.token.type), InvalidMessage}

\* C6 (amended): verifyToken never returns a payload for a token of the
\* other class; the call ends in an error, which is Revoked when the
\* registry reports the token, else Invalid when the two classes are signed
\* with different secrets, else Expired when the token has expired, else
\* WrongClass.
C6_WrongClassNeverHonoured ==
    WrongClassCall =>
        /\ ~fn.result.ok
        /\ fn.result.err.message =
              IF fn.listed /\ fn.client = "open" /\ fn.time < fn.token.exp
              THEN "Token has been revoked"
              ELSE IF fn.env.JWT_SECRET # fn.env.JWT_REFRESH_SECRET THEN InvalidMessage
              ELSE IF fn.time >= fn.token.exp THEN "Token has expired"
              ELSE WrongClassMessage(fn.type, fn.token.type)

\* a valid refresh token, signed with the secret the access tokens are
\* signed with, was refused where an access token was asked for
C6_Witness ==
    /\ WrongClassCall
    /\ fn.type = "access" /\ fn.time < fn.token.exp
    /\ fn.env.JWT_SECRET = fn.env.JWT_REFRESH_SECRET
    /\ fn.result.err.message = WrongClassMessage("access", "refresh")

\* C7: authenticate passes a request on, attaching the identity and its
\* role, only if a token was extracted, it verified as an access token and
\* names an identity that exists and is active; otherwise it answers 401
\* and the handler does not run.
C7_AuthenticateGate ==
    [][\A r \in Req :
          LET q == reqs'[r]
              tok == extractToken(q.hdr, q.ck)
          IN  (Arrives(r) /\ q.op \in GatedOps)
                 => /\ q.user # NoUser
                          => Honoured(tok) /\ q.user = tok.userId /\ q.role = users[tok.userId].role
                    /\ q.user = NoUser
                          => Done(r)' /\ Unauthenticated(q.res) /\ ~q.ran]_vars

\* a request has passed authenticate and its handler has run
C7_Witness ==
    \E r \in Req :
        /\ Done(r) /\ reqs[r].op \in GatedOps
        /\ reqs[r].user # NoUser /\ reqs[r].ran

\* C8: authorize(allowedRoles) lets the request proceed iff an identity is
\* attached and its role is in allowedRoles; otherwise it answers 403 and
\* the handler does not run.
C8_AuthorizeGate ==
    fn.name = "authorize" =>
        /\ fn.result.next <=> (fn.user # NoUser /\ fn.role \in fn.allowedRoles)
        /\ ~fn.result.next => fn.result.res.status = 403

\* authorize answered 403 to a request with no identity attached
C8_Witness ==
    /\ fn.name = "authorize"
    /\ fn.user = NoUser
    /\ "admin" \in fn.allowedRoles
    /\ fn.result.res.status = 403

\* C9: a signal handler runs only for a request that passed authenticate,
\* and the create, update, delete and analytics handlers only when the
\* attached role is admin.
C9_SignalRoutesGated ==
    \A r \in Req :
        (Done(r) /\ reqs[r].op \in SignalOps /\ reqs[r].ran)
            => /\ Honoured(extractToken(reqs[r].hdr, reqs[r].ck))
               /\ reqs[r].user = extractToken(reqs[r].hdr, reqs[r].ck).userId
               /\ reqs[r].op \in AdminSignalOps => reqs[r].role = "admin"

\* an admin's createSignal has run
C9_Witness ==
    \E r \in Req :
        /\ Done(r) /\ reqs[r].op = "createSignal" /\ reqs[r].ran
        /\ reqs[r].role = "admin"

\* C10: every refresh request that fails ends Unauthenticated (401).
C10_FailedRefreshUnauthenticated ==
    \A r \in Req :
        (Done(r) /\ reqs[r].op = "refresh" /\ reqs[r].res.status # 200)
            => Unauthenticated(reqs[r].res)

\* the login of slot r has failed for one of the three causes: no identity
\* with that email, identity inactive, password mismatch
LoginRefused(r) ==
    LET q == reqs[r]
        uid == FindByEmail(users, q.email)
    IN  /\ Done(r) /\ q.op = "login"
        /\ uid = NoUser \/ ~users[uid].isActive \/ ~q.pw

\* C11: the three login failure causes are indistinguishable to the caller:
\* each produces the same status and the same message (the one of an
\* unknown email).
C11_LoginFailuresIndistinguishable ==
    \A r \in Req :
        LoginRefused(r) =>
            /\ reqs[r].res.status = 401
            /\ reqs[r].res.message = "Invalid email or password"

\* the registry reports the token at this instant
ReportedRevoked(tok) == isTokenBlacklisted(redisClient, blacklist, now, tok)

\* C12: every access token that authenticate rejects as revoked, malformed
\* or badly signed, or expired is answered with the code of that cause
\* (TOKEN_REVOKED, INVALID_TOKEN, TOKEN_EXPIRED) in the response, in every
\* configuration of the server.
C12_RejectionCarriesCode ==
    \A r \in Req :
        LET q == reqs[r]
            tok == extractToken(q.hdr, q.ck)
        IN  (Done(r) /\ q.op \in GatedOps /\ q.user = NoUser /\ tok # Absent)
               => IF ReportedRevoked(tok) THEN q.res.code = "TOKEN_REVOKED"
                  ELSE IF tok.type \notin {"access", "refresh"} \/ tok.key # env.JWT_SECRET
                  THEN q.res.code = "INVALID_TOKEN"
                  ELSE IF now >= tok.exp THEN q.res.code = "TOKEN_EXPIRED"
                  ELSE TRUE

\* an access token authenticate has no reason of its own to refuse: signed
\* with the access secret, unexpired, for an existing, active identity
ValidAccess(e, us, t, tok) ==
    /\ tok # Absent
    /\ tok.type = "access"
    /\ tok.key = e.JWT_SECRET
    /\ t < tok.exp
    /\ tok.userId \in UserIds
    /\ us[tok.userId].exists /\ us[tok.userId].isActive

\* C13: while the cache client is missing, closed or failing,
\* isTokenBlacklisted answers false for every token; authenticate then
\* admits every otherwise valid access token, blacklisted earlier or not,
\* and answers every request as it would with an empty registry.
C13_RegistryUnavailableFailsOpen ==
    /\ (fn.name = "isTokenBlacklisted" /\ fn.client # "open") => fn.result = FALSE
    /\ (fn.name = "authenticate" /\ fn.client # "open") =>
          /\ ValidAccess(fn.env, fn.users, fn.time, fn.token) => fn.result.next
          /\ fn.result = authenticate(fn.env, fn.users, "open", {}, fn.time, fn.token, Absent)

C13_Witness ==
    /\ fn.name = "authenticate"
    /\ fn.client = "failing"
    /\ fn.listed
    /\ ValidAccess(fn.env, fn.users, fn.time, fn.token)
    /\ fn.result.next
    /\ fn.result.user = fn.token.userId

\* C14: a logout that passed authenticate ends with 200 "Logout
\* successful", whether or not the blacklist entry was written and whether
\* or not a refresh token was presented.
C14_AuthenticatedLogoutSucceeds ==
    \A r \in Req :
        (Done(r) /\ reqs[r].op = "logout" /\ reqs[r].user # NoUser)
            => /\ reqs[r].res.status = 200
               /\ reqs[r].res.message = "Logout successful"

\* C15: blacklistToken's result tells whether the entry was written: true
\* exactly when the registry holds an entry for the token afterwards, false
\* whenever the registry was unavailable and nothing was stored.
C15_BlacklistResultReportsWrite ==
    fn.name = "blacklistToken" =>
        (fn.result <=> \E en \in fn.after : en.token = fn.token)

\* C16: addRefreshToken on a list of 5 entries drops the first, keeps the
\* other four in order and puts the new token last; on a shorter list it
\* drops nothing and puts the new token last.  The stored list and the
\* caller's copy agree afterwards.
C16_RefreshListBoundedFifo ==
    fn.name = "addRefreshToken" =>
        LET b == fn.before
            a == fn.result.users[fn.user].refreshTokens
        IN  /\ fn.result.ok
            /\ fn.result.doc.refreshTokens = a
            /\ a[Len(a)] = fn.token
            /\ IF Len(b) = MaxRefreshTokens
               THEN /\ Len(a) = MaxRefreshTokens
                    /\ \A i \in 1..(MaxRefreshTokens - 1) : a[i] = b[i + 1]
               ELSE /\ Len(a) = Len(b) + 1
                    /\ \A i \in 1..Len(b) : a[i] = b[i]

C16_Witness ==
    /\ fn.name = "addRefreshToken"
    /\ Len(fn.before) = MaxRefreshTokens
    /\ fn.token # fn.before[MaxRefreshTokens]
    /\ fn.result.users[fn.user].refreshTokens[MaxRefreshTokens] = fn.token
    /\ \A i \in 1..MaxRefreshTokens : fn.result.users[fn.user].refreshTokens[i] # fn.before[1]

Normalized(s) == trim(toLowerCase(s))

\* a step of register request r, taken while some identity already has
\* the normalized email of its body
RegisterOfExisting(r) ==
    /\ reqs'[r].op = "register"
    /\ reqs[r].pc \in {"idle", "reg_create"}
    /\ reqs'[r] # reqs[r]
    /\ \E u \in UserIds : users[u].exists /\ Normalized(users[u].email) = Normalized(reqs'[r].email)

\* C17: no two identities ever have the same lower-cased, trimmed email,
\* concurrent registrations included; a register step for an email that
\* exists ends the request with 409 and leaves the identities as they were.
C17_EmailUniqueNormalized ==
    /\ [](\A u, v \in UserIds :
             (u # v /\ users[u].exists /\ users[v].exists)
                 => Normalized(users[u].email) # Normalized(users[v].email))
    /\ [][\A r \in Req :
             RegisterOfExisting(r) =>
                 /\ users' = users
                 /\ reqs'[r].pc = "done"
                 /\ reqs'[r].res.status = 409]_vars

\* the loser of two concurrent registrations of one address, spelled
\* differently, has met the unique index
C17_Witness ==
    \E r \in Req :
        /\ Done(r) /\ reqs[r].op = "register"
        /\ reqs[r].email = PaddedAnnEmail
        /\ reqs[r].res.status = 409
        /\ reqs[r].res.message = "Email already exists"
        /\ users[AnnId].exists /\ users[AnnId].email = AnnEmail

Registered(r) == Done(r) /\ reqs[r].op = "register" /\ reqs[r].res.status = 201

\* C18 as stated: after a successful register the new identity has role
\* user and its refreshTokens list is exactly the one token returned.
C18_RegisterLeavesExactlyOneToken ==
    \A r \in Req :
        Registered(r) =>
            LET u == users[reqs[r].pair.refreshToken.userId]
            IN  /\ u.role = "user"
                /\ u.refreshTokens = <<reqs[r].pair.refreshToken>>

\* C18: after a successful register the new identity has role user
\* whatever role the body named, and the returned refresh token is the last
\* entry of its refreshTokens list; the list holds that entry alone when
\* register's save is the only one the document has seen, that is, unless
\* a login for the new identity added its session before register did.
C18_RegisterAppendsItsToken ==
    \A r \in Req :
        Registered(r) =>
            LET u == users[reqs[r].pair.refreshToken.userId]
                n == Len(u.refreshTokens)
            IN  /\ u.exists /\ u.role = "user"
                /\ u.email = Normalized(reqs[r].email)
                /\ n >= 1 /\ u.refreshTokens[n] = reqs[r].pair.refreshToken
                /\ u.v = 1 => n = 1

C18_Witness ==
    \E r \in Req :
        /\ Registered(r)
        /\ reqs[r].bodyRole = "admin"
        /\ users[AnnId].role = "user"
        /\ users[AnnId].refreshTokens = <<reqs[r].pair.refreshToken>>

\* the step in which login request r is refused
LoginRefusal(r) ==
    /\ reqs[r].pc = "idle"
    /\ reqs'[r].op = "login" /\ reqs'[r].pc = "done"

\* C19: the step that refuses a login (unknown email, deactivated
\* identity or wrong password) writes nothing: every identity's document,
\* refreshTokens and lastLogin included, and the blacklist stay as they were.
C19_FailedLoginChangesNothing ==
    [][\A r \in Req :
          LoginRefusal(r) =>
              /\ users' = users
              /\ blacklist' = blacklist
              /\ issued' = issued]_vars

C19_Witness ==
    \E r \in Req :
        LET uid == FindByEmail(users, reqs[r].email)
        IN  /\ LoginRefused(r)
            /\ uid # NoUser /\ users[uid].isActive /\ ~reqs[r].pw
            /\ Len(users[uid].refreshTokens) > 0
            /\ users[uid].lastLogin = -1

\* C20: a token minted for an identity, verified as its own class before
\* it expires and with no logout recorded for it, comes back with the
\* identity's userId and email, and an access token with its role as well.
C20_MintVerifyRoundTrip ==
    (fn.name = "mintThenVerify" /\ fn.time < fn.token.exp /\ ~fn.listed) =>
        /\ fn.result.ok
        /\ fn.result.payload.type = fn.type
        /\ fn.result.payload.userId = fn.user
        /\ fn.result.payload.email = fn.doc.email
        /\ fn.type = "access" => fn.result.payload.role = fn.doc.role

C20_Witness ==
    /\ fn.name = "mintThenVerify"
    /\ fn.type = "access" /\ fn.user = AdminId
    /\ fn.time < fn.token.exp /\ ~fn.listed
    /\ fn.result.ok
    /\ fn.result.payload.role = "admin"
    /\ fn.result.payload.email = AdminEmail

Range(seq) == {seq[i] : i \in 1..Len(seq)}

\* a step of login or refresh request r that has loaded its document
WriterStep(r) ==
    /\ reqs[r].op \in {"login", "refresh"}
    /\ reqs[r].doc # NoDoc
    /\ reqs'[r] # reqs[r]

\* the stored entries a step of r may drop: the refresh token it rotates
\* and, from a full list, the oldest entry
MayDrop(r) ==
    LET stored == users[reqs[r].doc.uid].refreshTokens
    IN  (IF reqs[r].op = "refresh" THEN {reqs[r].rt} ELSE {})
           \cup (IF Len(stored) >= MaxRefreshTokens THEN {stored[1]} ELSE {})

\* C21: writes of concurrent logins and refreshes to one identity's list
\* lose nothing: a step of such a request keeps every stored entry other
\* than the token it rotates and the oldest of a full list, and the step
\* that completes it with 200 leaves the returned refresh token stored.
C21_NoLostRefreshToken ==
    [][\A r \in Req :
          WriterStep(r) =>
              LET uid == reqs[r].doc.uid
              IN  /\ Range(users[uid].refreshTokens) \ MayDrop(r)
                        \subseteq Range(users'[uid].refreshTokens)
                  /\ (reqs'[r].pc = "done" /\ reqs'[r].res.status = 200)
                        => reqs'[r].pair.refreshToken \in Range(users'[uid].refreshTokens)]_vars

\* a login has completed while a refresh of the same identity is between
\* its removal and its append
C21_Witness ==
    \E r, o \in Req :
        /\ Done(r) /\ reqs[r].op = "login" /\ reqs[r].res.status = 200
        /\ reqs[o].pc = "refresh_add"
        /\ reqs[o].doc.uid = reqs[r].pair.refreshToken.userId
        /\ reqs[r].pair.refreshToken \in Range(users[reqs[o].doc.uid].refreshTokens)
        /\ reqs[o].rt \notin Range(users[reqs[o].doc.uid].refreshTokens)

\* C22: once a refresh request has saved the removal of the token it was
\* given, the stored list holds the replacement: no stored state has the
\* old token removed by the request and the new one not yet appended.
C22_RotationAtomic ==
    \A r \in Req :
        (reqs[r].op = "refresh" /\ reqs[r].pc = "refresh_add")
            => LET stored == Range(users[reqs[r].doc.uid].refreshTokens)
               IN  reqs[r].rt \in stored \/ reqs[r].pair.refreshToken \in stored

\* C23: optionalAuthenticate calls next exactly once and sends nothing,
\* whatever the request carries; it attaches an identity exactly when the
\* token is an unexpired access token signed with the access secret that
\* the registry does not report and that names an existing, active
\* identity, and then it attaches that identity and its stored role.
C23_OptionalAuthenticateNeverRejects ==
    fn.name = "optionalAuthenticate" =>
        LET attach == /\ ValidAccess(fn.env, fn.users, fn.time, fn.token)
                      /\ ~isTokenBlacklisted(fn.client, fn.blacklist, fn.time, fn.token)
        IN  /\ fn.result.calls = 1
            /\ fn.result.res = NoResponse
            /\ fn.result.user # NoUser <=> attach
            /\ attach => /\ fn.result.user = fn.token.userId
                          /\ fn.result.role = fn.users[fn.token.userId].role

\* a revoked token, and a token of a deactivated identity, pass unattached
C23_Witness ==
    /\ fn.name = "optionalAuthenticate"
    /\ fn.token # Absent /\ fn.token.type = "access" /\ fn.token.key = fn.env.JWT_SECRET
    /\ fn.time < fn.token.exp
    /\ isTokenBlacklisted(fn.client, fn.blacklist, fn.time, fn.token)
    /\ fn.result.calls = 1 /\ fn.result.user = NoUser /\ fn.result.res = NoResponse

\* C24: isOwnerOrAdmin(paramName) calls next exactly when an identity is
\* attached and it is an admin or its id is the value of the route
\* parameter paramName; otherwise it answers 403 and does not call next.
C24_OwnerOrAdminGate ==
    fn.name = "isOwnerOrAdmin" =>
        LET allowed == /\ fn.user # NoUser
                       /\ \/ fn.role = "admin"
                          \/ fn.params[fn.paramName] = toStringId(fn.user)
        IN  /\ fn.result.next <=> allowed
            /\ fn.result.next => fn.result.res = NoResponse
            /\ ~fn.result.next => fn.result.res.status = 403

\* a user reaches a resource of their own under the parameter named, while
\* the other parameter names somebody else
C24_Witness ==
    /\ fn.name = "isOwnerOrAdmin"
    /\ fn.role = "user"
    /\ fn.params[fn.paramName] = toStringId(fn.user)
    /\ \E other \in ParamNames \ {fn.paramName} : fn.params[other] # toStringId(fn.user)
    /\ fn.result.next

\* a value that is there: sent, and not the empty string
Sent(value) == value # Absent /\ value # Empty

\* C25: extractToken returns the token of a Bearer Authorization header
\* when there is one, else the accessToken cookie when there is one, else
\* nothing; extractRefreshToken returns the refreshToken cookie when there
\* is one, else the refreshToken body field when there is one, else nothing.
C25_ExtractionPreference ==
    /\ fn.name = "extractToken" =>
          fn.result = IF fn.authorization.scheme = "Bearer" THEN fn.authorization.credentials
                      ELSE IF Sent(fn.cookie) THEN fn.cookie
                      ELSE Absent
    /\ fn.name = "extractRefreshToken" =>
          fn.result = IF Sent(fn.cookie) THEN fn.cookie
                      ELSE IF Sent(fn.body) THEN fn.body
                      ELSE Absent

\* header and cookie carry different tokens and the header's is returned
C25_Witness ==
    /\ fn.name = "extractToken"
    /\ fn.authorization.scheme = "Bearer"
    /\ Sent(fn.cookie) /\ fn.cookie # fn.authorization.credentials
    /\ fn.result = fn.authorization.credentials

WriteOps == {"createSignal", "updateSignal", "deleteSignal"}

\* a read request arrives in this step and is answered from the cache,
\* every write request that was started having completed
ReadFromCacheAfterWrites(h) ==
    /\ handlers[h].pc = "idle"
    /\ handlers'[h].pc = "done" /\ handlers'[h].cached
    /\ \A o \in Handler : handlers[o].op \notin WriteOps

\* what the collection holds for a read request
Current(c) == IF c.op = "getSignalById" THEN CachedSignal(signals[c.id]) ELSE CachedList(signals)

\* C26: a getSignals or getSignalById request that arrives when every
\* createSignal, updateSignal and deleteSignal request has completed, and
\* that is answered from the cache, returns what the collection holds.
C26_NoStaleSignalRead ==
    [][\A h \in Handler :
          ReadFromCacheAfterWrites(h) => handlers'[h].res = Current(handlers'[h])]_vars

\* a step of an authenticated logout or logout-all request r
LogoutStep(r) ==
    /\ reqs[r].op \in {"logout", "logoutAll"}
    /\ reqs[r].user # NoUser
    /\ reqs'[r] # reqs[r]

\* C27: whatever entry a step of an authenticated logout or logout-all
\* adds to the blacklist is for the token authenticate verified for that
\* request, the one extractToken returns for it.
C27_BlacklistsVerifiedToken ==
    [][\A r \in Req :
          LogoutStep(r) =>
              \A e \in blacklist' \ blacklist :
                  e.token = extractToken(reqs[r].hdr, reqs[r].ck)]_vars

\* a step of a logout-all request r that passed authenticate
LogoutAllStep(r) ==
    /\ reqs[r].op = "logoutAll"
    /\ reqs[r].user # NoUser
    /\ reqs'[r] # reqs[r]

\* C28: a step of logout-all adds at most one blacklist entry, and only
\* for the access token the request was authenticated with; every other
\* issued access token that authenticate accepted before the step it
\* accepts after it.
C28_LogoutAllRevokesOnlyPresented ==
    [][\A r \in Req :
          LogoutAllStep(r) =>
              LET presented == extractToken(reqs[r].hdr, reqs[r].ck)
              IN  /\ Cardinality(blacklist' \ blacklist) <= 1
                  /\ \A e \in blacklist' \ blacklist : e.token = presented
                  /\ \A t \in issued :
                        (t.type = "access" /\ t # presented /\ Honoured(t)) => Honoured(t)']_vars

\* a step of request r of one of the given operations
StepOf(r, ops) == reqs[r].op \in ops /\ reqs'[r] # reqs[r]

\* C29: the blacklist changes only in a step of a logout or logout-all
\* request, which adds or renews entries for tokens that request carried
\* and removes none, or by the passing of time, which removes entries that
\* have reached their expiry and adds none; no step of a register, login,
\* refresh or signal request, authenticate included, changes it.
C29_RegistryWrittenOnlyByLogout ==
    [][/\ \A r \in Req :
             StepOf(r, {"register", "login", "refresh", "signal"}) => blacklist' = blacklist
       /\ blacklist' # blacklist =>
             \/ /\ now' # now
                /\ blacklist' \subseteq blacklist
                /\ \A e \in blacklist \ blacklist' : e.expireAt <= now'
             \/ \E r \in Req :
                   /\ StepOf(r, {"logout", "logoutAll"})
                   /\ \A e \in blacklist' \ blacklist : e.token \in {reqs[r].hdr, reqs[r].ck}
                   /\ \A e \in blacklist \ blacklist' :
                         \E n \in blacklist' \ blacklist : n.token = e.token]_vars

\* a login, refresh or register request has been answered while a token
\* that a logout stored is in the blacklist
C29_Witness ==
    \E r \in Req :
        /\ Done(r)
        /\ reqs[r].op \in {"register", "login", "refresh"}
        /\ reqs[r].res.status \in {200, 201}
        /\ blacklist # {}
        /\ \A e \in blacklist : e.token \in revoked

\* C30: a step of an authenticated logout request changes no refreshTokens
\* list but the caller's, and the caller's only in the step that runs
\* removeRefreshToken, whose outcome is the stored list without the
\* presented refresh token, the other entries in their order (the stored
\* list itself when the token is not in it).
C30_LogoutRemovesExactlyPresented ==
    [][\A r \in Req :
          (StepOf(r, {"logout"}) /\ reqs[r].user # NoUser) =>
              LET u == reqs[r].user
              IN  /\ \A o \in UserIds \ {u} : users'[o] = users[o]
                  /\ users'[u].refreshTokens =
                        IF reqs[r].pc = "logout_remove" /\ reqs[r].doc # NoDoc
                        THEN Filter(users[u].refreshTokens, reqs[r].rt)
                        ELSE users[u].refreshTokens]_vars

C32_ConnectDBBounded ==
    /\ [](/\ boot.attempts <= maxRetries
          /\ boot.exitCode \in {NotExited, 1}
          /\ boot.exitCode = 1 => (boot.attempts = maxRetries /\ boot.retries = maxRetries))
    /\ [][boot.db = "connected" => (boot'.attempts = boot.attempts /\ boot'.db = "connected")]_vars
    /\ <>(boot.db = "connected" \/ boot.exitCode = 1)

\* every attempt failed: the process has exited after the fifth
C32_Witness == boot.exitCode = 1 /\ boot.attempts = maxRetries /\ boot.db = "failed"

\* C33: an api call makes at most one refresh call and at most one retry;
\* a retried request that is answered 401 is rejected to the caller with
\* localStorage untouched, and a refresh call that fails is rejected to
\* the caller with localStorage cleared.
C33_InterceptorCannotLoop ==
    /\ [](\A c \in Calls :
             /\ browser.calls[c].refreshes <= 1
             /\ browser.calls[c].retries <= browser.calls[c].refreshes)
    /\ [][\A c \in Calls :
             LET call == browser.calls[c]
                 after == browser'.calls[c]
             IN  /\ (call.pc = "retrying" /\ after # call /\ after.retryStatus # 200) =>
                       (after.pc = "rejected" /\ browser'.storage = browser.storage)
                 /\ (call.pc = "refreshed" /\ after # call /\ call.refreshStatus # 200) =>
                       (after.pc = "rejected" /\ browser'.storage = ClearedStorage)]_vars

\* a call refreshed, retried, was answered 401 again and has been rejected
\* with the refreshed tokens still stored
C33_Witness ==
    \E c \in Calls :
        /\ browser.calls[c].pc = "rejected"
        /\ browser.calls[c].refreshes = 1 /\ browser.calls[c].retries = 1
        /\ browser.calls[c].retryStatus = 401
        /\ browser.storage.refreshToken = browser.calls[c].tokens.refreshToken

\* C34: a login or refresh request answered 200 with a credential pair is
\* for an identity whose isActive flag is true.
C34_PairOnlyForActiveIdentity ==
    \A r \in Req :
        (Done(r) /\ reqs[r].op \in {"login", "refresh"} /\ reqs[r].res.status = 200) =>
            /\ reqs[r].pair.accessToken # Absent
            /\ users[reqs[r].pair.accessToken.userId].isActive

\* number of entries of seq equal to tok
Occurrences(seq, tok) == Cardinality({i \in 1..Len(seq) : seq[i] = tok})

\* C35: the step in which a refresh request is answered 200 returns a
\* refresh token that differs from the presented one and from every entry
\* the identity's stored list held before the step, and leaves the list
\* without the presented value and with the returned value exactly once.
C35_RefreshReturnsFreshValue ==
    [][\A r \in Req :
          (reqs[r].op = "refresh" /\ ~Done(r) /\ reqs'[r].pc = "done" /\ reqs'[r].res.status = 200) =>
              LET returned == reqs'[r].pair.refreshToken
                  u == returned.userId
              IN  /\ returned # reqs[r].rt
                  /\ returned \notin Range(users[u].refreshTokens)
                  /\ reqs[r].rt \notin Range(users'[u].refreshTokens)
                  /\ Occurrences(users'[u].refreshTokens, returned) = 1]_vars

\* C36: a refresh request that is rejected on arrival (no token, a token
\* that fails verification, an identity that is not found, a token that is
\* not in the stored list) is answered without a credential pair, and the
\* step leaves every refreshTokens list, the blacklist and the set of
\* issued tokens as they were.
C36_RejectedRefreshChangesNothing ==
    [][\A r \in Req :
          (Arrives(r) /\ reqs'[r].op = "refresh" /\ reqs'[r].pc = "done") =>
              /\ reqs'[r].res.status # 200
              /\ reqs'[r].pair = NoPair
              /\ users' = users
              /\ blacklist' = blacklist
              /\ issued' = issued]_vars

\* a refresh presenting a token that an earlier refresh consumed, and that
\* is no longer in the stored list, has been rejected
C36_Witness ==
    \E r \in Req :
        /\ Done(r) /\ reqs[r].op = "refresh" /\ reqs[r].res.status # 200
        /\ ~reqs[r].ran
        /\ reqs[r].rt \in used
        /\ reqs[r].rt.userId \in UserIds
        /\ ~Includes(users[reqs[r].rt.userId].refreshTokens, reqs[r].rt)

\* C37: no step of a signal handler (createSignal, updateSignal,
\* deleteSignal, getSignals, getSignalById) removes a blacklist entry.
C37_SignalCacheKeepsBlacklist ==
    [][handlers' # handlers => blacklist \subseteq blacklist']_vars

\* a writer has run cache.del and cache.delPattern('signals:*') with a
\* token blacklisted
C37_Witness ==
    \E h \in Handler :
        /\ handlers[h].pc = "done"
        /\ handlers[h].op \in {"updateSignal", "deleteSignal"}
        /\ handlers[h].status = 200
        /\ blacklist # {}

\* C38: once the module-level cache client is null it stays null; while it
\* is null every blacklist lookup reports not listed, every cache.set
\* returns false and writes nothing, and a request behind authenticate
\* that presents a blacklisted but otherwise acceptable access token is
\* let through.
C38_ClientNullForGood ==
    /\ [](redisClient = "null" =>
            \A tok \in issued \cup {e.token : e \in blacklist} :
                /\ ~cacheGet(redisClient, blacklist, now, tok)
                /\ ~isTokenBlacklisted(redisClient, blacklist, now, tok)
                /\ ~cacheSetResult(redisClient, getTokenExpiry(tok, now))
                /\ cacheSet(redisClient, blacklist, now, tok, getTokenExpiry(tok, now)) = blacklist)
    /\ [][redisClient = "null" => redisClient' = "null"]_vars
    /\ [][\A r \in Req :
             (/\ redisClient = "null"
              /\ Arrives(r) /\ reqs'[r].op \in GatedOps
              /\ ValidAccess(env, users, now, extractToken(reqs'[r].hdr, reqs'[r].ck)))
             => reqs'[r].user # NoUser]_vars

\* after the error event a request presenting a token that is still in the
\* blacklist has passed authenticate
C38_Witness ==
    /\ redisClient = "null"
    /\ \E r \in Req :
          /\ Done(r) /\ reqs[r].op \in GatedOps /\ reqs[r].user # NoUser
          /\ \E e \in blacklist :
                e.token = extractToken(reqs[r].hdr, reqs[r].ck) /\ now < e.expireAt

\* C39: no two api calls post the same refresh token in their refresh
\* calls, and the catch block of a call whose refresh failed because
\* another call had already rotated the token leaves the stored tokens in
\* place.
C39_ConcurrentRefreshKeepsSession ==
    /\ [](\A c, d \in Calls :
             (c # d /\ browser.calls[c].refreshes > 0 /\ browser.calls[d].refreshes > 0)
                => browser.calls[c].rt # browser.calls[d].rt)
    /\ [][\A c \in Calls :
             LET call == browser.calls[c]
             IN  (/\ call.pc = "refreshed" /\ browser'.calls[c] # call
                  /\ call.refreshStatus \notin {200, NoStatus}
                  /\ call.rt \in used)
                 => browser'.storage = browser.storage]_vars

====
